---- MODULE Spec2Model ----
(***************************************************************************)
(* Spellbook: the tiered card-detail cache of                              *)
(* backend/app/services/card_service.py (CardDetailsService), the Card     *)
(* row of backend/app/models/card.py, the hot tier of                      *)
(* backend/app/services/redis_service.py, the rate limiter of              *)
(* card_service.py (ScryfallRateLimiter), the index bootstrap of           *)
(* backend/app/services/card_data_service.py (ensure_initialized) and the  *)
(* startup sequence of backend/app/services/startup_service.py.            *)
(*                                                                         *)
(* Every coroutine is cut at its awaits: one action per awaited database,  *)
(* Redis or HTTP round trip.  Spec runs the calls one after the other      *)
(* (a call starts only when no other is in flight); ConcSpec interleaves   *)
(* the steps of two callers.  RateSpec and RateConcSpec run the limiter on  *)
(* its own clock, with its callers in turn and interleaved; BootSpec runs  *)
(* the startup sequence next to a second caller of ensure_initialized.     *)
(*                                                                         *)
(* The clock counts days, the unit of cleanup_expired_cache(days).         *)
(***************************************************************************)
EXTENDS Integers, Sequences, FiniteSets, TLC

\* ---------------------------------------------------------------- bounds
MaxTime == 2          \* the clock runs 0..MaxTime
MaxDays == 1          \* cleanup_expired_cache is called with days in 0..MaxDays
HotTTL  == 2          \* RedisService.default_ttl (7 days), scaled to the clock
MinInterval == 2      \* ScryfallRateLimiter.min_interval (1/requests_per_second), in ticks of rl_clock
MaxClock    == 10     \* rl_clock runs MinInterval..MaxClock
MaxCalls    == 3      \* wait_if_needed is called at most MaxCalls times
MinCards    == 2      \* MIN_CARDS_FOR_VALID_INDEX (10000), scaled to the dumps
BatchSize   == 2      \* CARD_INDEX_BATCH_SIZE (2000), scaled to the dumps
MaxDump     == 3      \* a dump holds at most MaxDump records
MaxRows     == 3      \* the searches run over at most MaxRows rows of card_index
MaxPage     == 2      \* a search asks for page 1..MaxPage
OracleBatchSize == 2  \* batch_size of process_oracle_cards_file (1000), scaled to the dumps

Ids      == {"c1", "c2"}     \* scryfall ids the callers ask for
ConcIds  == {"c1"}           \* the id the interleaved callers contend for
Procs    == {1, 2}           \* callers (request coroutines, background jobs)
SeqProcs == {1}              \* the caller of the one-call-at-a-time runs
StartupProc == 1             \* the caller that is run_startup_sequence

\* the catalog ids of the bulk dumps, and the records a dump is made of: a
\* playable printing per id and a token.  A record carries what
\* _process_card looks at; a missing 'id' or 'name' is "".  Every id is a
\* well-formed UUID.
CatalogIds  == Ids \cup {"c3"}
Record(id, name, layout, set_type) ==
    [id |-> id, name |-> name, layout |-> layout, set_type |-> set_type]
DumpRecords == {Record(i, "n", "normal", "core") : i \in CatalogIds}
                \cup {Record("t1", "n", "token", "core")}

\* the records of the dumps that exercise the loader's filter: two playable
\* printings, one record for each skipped layout and set type, and records
\* without id, without name, without either
LoaderRecords ==
    {Record("c1", "n", "normal", "core"), Record("c2", "n", "transform", "expansion"),
     Record("t1", "n", "token", "core"), Record("t2", "n", "double_faced_token", "core"),
     Record("t3", "n", "art_series", "core"), Record("t4", "n", "emblem", "core"),
     Record("t5", "n", "normal", "memorabilia"), Record("t6", "n", "normal", "token"),
     Record("t7", "n", "normal", "minigame"),
     Record("", "n", "normal", "core"), Record("c3", "", "normal", "core"),
     Record("", "", "normal", "core")}

\* what GET /bulk-data can do: list default_cards, list oracle_cards only,
\* list neither, or fail (status error, network error, body not JSON)
Manifests == {"default_cards", "oracle_cards", "none", "raise"}

\* CardStorageReason (models/card.py)
SEARCH_CACHE    == "search_cache"
USER_COLLECTION == "user_collection"
DECK_USAGE      == "deck_usage"
ADMIN_IMPORT    == "admin_import"
CardStorageReason == {SEARCH_CACHE, USER_COLLECTION, DECK_USAGE, ADMIN_IMPORT}
ConcReasons       == {USER_COLLECTION}

\* what GET /cards/{id} of the external source can do
\*   ok            2xx with a card payload
\*   http_404      HTTPStatusError, status 404
\*   http_error    HTTPStatusError, any other status
\*   request_error httpx.RequestError (network failure, timeout)
\*   bad_json      2xx whose body response.json() cannot parse
\*   missing_field 2xx, a JSON object without 'id' or 'name'
Outcomes     == {"ok", "http_404", "http_error", "request_error", "bad_json", "missing_field"}
ConcOutcomes == {"ok", "http_404"}

VARIABLES
    now,            \* datetime.utcnow(), in days
    cards_index,    \* table cards_index (CardIndex): the set of scryfall ids
    cards,          \* table cards (Card): scryfall id -> row, or NoRow
    redis,          \* keys card:details:<id>: id -> expiry time, 0 = no key
    redis_up,       \* the Redis client's calls succeed
    proc,           \* per caller: position in its coroutine and its locals
    fresh_until     \* history: id -> end of the hot-tier TTL counted from the last
                    \* get_card_details(id) that returned a card, 0 = none running

\* ScryfallRateLimiter (services/card_service.py), on a clock of its own that
\* ticks in fractions of min_interval
VARIABLES
    rl_clock,           \* datetime.utcnow().timestamp()
    last_request_time,  \* ScryfallRateLimiter.last_request_time
    waiter,             \* per caller: where it is in wait_if_needed
    releases            \* history: the times at which wait_if_needed returned

\* CardDataService.ensure_initialized (services/card_data_service.py) and
\* StartupService.run_startup_sequence (services/startup_service.py)
VARIABLES
    lock,               \* CardDataService._initialization_lock: holder, 0 = free
    is_initializing,    \* CardDataService._is_initializing
    boot,               \* per caller: position in ensure_initialized and its locals
    temp_files,         \* the dump files on disk (tempfile.mktemp names)
    startup             \* StartupService: position, startup_errors, status

cachevars == <<now, cards_index, cards, redis, redis_up, proc, fresh_until>>
ratevars  == <<rl_clock, last_request_time, waiter, releases>>
bootvars  == <<lock, is_initializing, boot, temp_files, startup>>

vars == <<cachevars, ratevars, bootvars>>

\* ------------------------------------------------------------ warm tier
NoRow == [pk |-> 0, storage_reason |-> "none", permanent |-> FALSE,
          cached_at |-> 0, last_accessed |-> 0]

\* primary keys of scryfall id i that the row or a loaded Card object carries
UsedPks(i) ==
    {cards[i].pk} \cup
    {proc[p].card_pk : p \in {q \in Procs : proc[q].id = i}} \cup
    UNION {{c.pk : c \in {d \in proc[p].expired_cards : d.scryfall_id = i}} : p \in Procs}

\* Card.id default=uuid.uuid4: a key that no row and no loaded object carries
\* (keys are drawn per scryfall id; a loaded object is held with its id)
FreshPk(i) == CHOOSE k \in 1..(Cardinality(UsedPks(i)) + 1) : k \notin UsedPks(i)

\* a promotion that keeps the reason of an entry that is already permanent
make_permanent_KeepReason(row, reason) ==
    IF row.permanent
    THEN [row EXCEPT !.last_accessed = now]
    ELSE [row EXCEPT !.storage_reason = reason, !.permanent = TRUE, !.last_accessed = now]

\* Card.make_permanent
make_permanent(row, reason) ==
    [row EXCEPT !.storage_reason = reason, !.permanent = TRUE, !.last_accessed = now]

\* a read that leaves last_accessed alone
update_access_time_Noop(row) == row

\* Card.update_access_time
update_access_time(row) == [row EXCEPT !.last_accessed = now]

\* a fetched card stored as if it had been promoted
NewCard_Permanent(pk) ==
    [pk |-> pk, storage_reason |-> SEARCH_CACHE, permanent |-> TRUE,
     cached_at |-> now, last_accessed |-> now]

\* the Card(...) of _store_card_details
NewCard(pk) ==
    [pk |-> pk, storage_reason |-> SEARCH_CACHE, permanent |-> FALSE,
     cached_at |-> now, last_accessed |-> now]

\* a sweep that looks at the age alone
IsExpired_AgeOnly(row, cutoff_date) ==
    row.cached_at < cutoff_date

\* a sweep whose cutoff is inclusive
IsExpired_Inclusive(row, cutoff_date) ==
    /\ row.permanent = FALSE
    /\ row.storage_reason = SEARCH_CACHE
    /\ row.cached_at <= cutoff_date

\* the WHERE clause of cleanup_expired_cache
IsExpired(row, cutoff_date) ==
    /\ row.permanent = FALSE
    /\ row.storage_reason = SEARCH_CACHE
    /\ row.cached_at < cutoff_date

\* ------------------------------------------------------------- hot tier
\* a key set with SETEX/EXPIRE is readable until its expiry time
HotLive(i) == redis[i] > now

\* ------------------------------------------------ card_index: the searches
\* A text column, a filter and a LIKE pattern are sequences of characters.
\* NULL is a column without a value; a filter that is None or "" is <<>>.
NULL     == <<"NULL">>
NoOracle == "NULL"

\* the letters of the columns and filters, lower case first
Letters == {<<"a", "A">>, <<"b", "B">>, <<"c", "C">>, <<"u", "U">>, <<"w", "W">>,
            <<"r", "R">>, <<"x", "X">>, <<"y", "Y">>}

\* str.lower, str.upper and the case folding of ILIKE, character by character
LowerChar(ch) ==
    IF \E l \in Letters : l[2] = ch THEN (CHOOSE l \in Letters : l[2] = ch)[1] ELSE ch
UpperChar(ch) ==
    IF \E l \in Letters : l[1] = ch THEN (CHOOSE l \in Letters : l[1] = ch)[2] ELSE ch
lower(str) == [k \in 1..Len(str) |-> LowerChar(str[k])]
upper(str) == [k \in 1..Len(str) |-> UpperChar(str[k])]

\* the rows that a load can have put into card_index (_process_card: set_code
\* upper-cased and '' when absent, rarity lower-cased, colors joined without
\* separator, other absent values NULL): three printings of one card, a card of its own, a row
\* without oracle id, and a card with an underscore in its name
IndexRow(id, oracle, name, type_line, colors, set_code, rarity) ==
    [scryfall_id |-> id, oracle_id |-> oracle, name |-> name, type_line |-> type_line,
     colors |-> colors, set_code |-> set_code, rarity |-> rarity]
IndexRows ==
    {IndexRow("c1", "G", <<"A", "b">>, <<"c">>, <<"W">>, <<"X">>, <<"r">>),
     IndexRow("c2", "G", <<"A", "b">>, <<"c">>, <<"W">>, <<"Y">>, <<"u">>),
     IndexRow("c3", "G", <<"A", "b">>, <<"c">>, <<"W">>, <<"X">>, <<"u">>),
     IndexRow("p4", "H", <<"b">>, <<"A", "c">>, <<"W", "U">>, <<"X">>, <<"r">>),
     IndexRow("p5", NoOracle, <<"c", "a">>, NULL, NULL, <<>>, NULL),
     IndexRow("p6", "K", <<"B", "_">>, <<"b">>, <<"U">>, <<"Y">>, <<"u">>)}
QueryIds == {r.scryfall_id : r \in IndexRows}

\* the rows of card_index: the columns of the ids it holds
RowOf(i)   == CHOOSE r \in IndexRows : r.scryfall_id = i
Rows(index) == {RowOf(i) : i \in index \cap QueryIds}

\* the requests: filters q, colors, set, rarity, type, and the page
NoFilters == [q |-> <<>>, colors |-> <<>>, set_code |-> <<>>, rarity |-> <<>>,
              type_line |-> <<>>]
Filters ==
    [q         : {<<>>, <<"a">>, <<"A", "B">>, <<"_">>},
     colors    : {<<>>, <<"U">>},
     set_code  : {<<>>, <<"x">>},
     rarity    : {<<>>, <<"R">>},
     type_line : {<<>>, <<"C">>}]
Request(filters, page, per_page) ==
    [filters |-> filters, page |-> page, per_page |-> per_page]
Requests == {Request(f, page, per_page) :
                 f \in Filters, page \in 1..MaxPage, per_page \in 1..MaxRows}

\* SQL LIKE: % matches any run of characters, _ any one character
RECURSIVE Like(_, _)
Like(str, pattern) ==
    IF pattern = <<>> THEN str = <<>>
    ELSE IF Head(pattern) = "%"
         THEN Like(str, Tail(pattern)) \/ (str # <<>> /\ Like(Tail(str), pattern))
         ELSE /\ str # <<>>
              /\ Head(pattern) = "_" \/ Head(pattern) = Head(str)
              /\ Like(Tail(str), Tail(pattern))

\* column.like(pattern), column.ilike(pattern); on a NULL column the
\* condition is unknown, and WHERE keeps the rows whose condition is true
like(column, pattern)  == column # NULL /\ Like(column, pattern)
ilike(column, pattern) == column # NULL /\ Like(lower(column), lower(pattern))

\* f"%{term}%"
Around(term) == <<"%">> \o term \o <<"%">>

\* column == value in a WHERE clause
eq(column, value) == column # NULL /\ column = value

\* a count query that leaves the rarity filter out
get_search_count_conditions_NoRarity(row, query_params) ==
    /\ query_params.q # <<>> =>
           \/ ilike(row.name, Around(query_params.q))
           \/ ilike(row.type_line, Around(query_params.q))
    /\ query_params.colors # <<>> => like(row.colors, Around(query_params.colors))
    /\ query_params.set_code # <<>> => eq(row.set_code, upper(query_params.set_code))
    /\ query_params.type_line # <<>> => ilike(row.type_line, Around(query_params.type_line))

\* api/v1/cards.py, _get_search_count: the conditions of the count query
get_search_count_conditions(row, query_params) ==
    /\ query_params.q # <<>> =>
           \/ ilike(row.name, Around(query_params.q))
           \/ ilike(row.type_line, Around(query_params.q))
    /\ query_params.colors # <<>> => like(row.colors, Around(query_params.colors))
    /\ query_params.set_code # <<>> => eq(row.set_code, upper(query_params.set_code))
    /\ query_params.rarity # <<>> => eq(row.rarity, lower(query_params.rarity))
    /\ query_params.type_line # <<>> => ilike(row.type_line, Around(query_params.type_line))

get_search_count(index, query_params) ==
    Cardinality({r \in Rows(index) : get_search_count_conditions(r, query_params)})

\* CardDetailsService._search_card_index: the conditions of the page query
search_card_index_conditions(row, query_params) ==
    /\ query_params.q # <<>> =>
           \/ ilike(row.name, Around(query_params.q))
           \/ ilike(row.type_line, Around(query_params.q))
    /\ query_params.colors # <<>> => like(row.colors, Around(query_params.colors))
    /\ query_params.set_code # <<>> => eq(row.set_code, upper(query_params.set_code))
    /\ query_params.rarity # <<>> => eq(row.rarity, lower(query_params.rarity))
    /\ query_params.type_line # <<>> => ilike(row.type_line, Around(query_params.type_line))

\* ORDER BY name: the code points of the characters in use, in order
Collation == <<"%", "A", "B", "C", "R", "U", "W", "X", "Y", "_",
               "a", "b", "c", "r", "u", "w", "x", "y">>
Code(ch) == CHOOSE k \in 1..Len(Collation) : Collation[k] = ch
RECURSIVE NameLeq(_, _)
NameLeq(s, t) ==
    IF s = <<>> THEN TRUE
    ELSE IF t = <<>> THEN FALSE
    ELSE IF Head(s) = Head(t) THEN NameLeq(Tail(s), Tail(t))
    ELSE Code(Head(s)) < Code(Head(t))

\* the orders in which ORDER BY name can deliver the rows: rows of the same
\* name come in any order
RECURSIVE OrderByName(_)
OrderByName(rows) ==
    IF rows = {} THEN {<<>>}
    ELSE UNION {{<<r.scryfall_id>> \o rest : rest \in OrderByName(rows \ {r})} :
                   r \in {x \in rows : \A y \in rows : NameLeq(x.name, y.name)}}

\* OFFSET offset LIMIT limit
Page(results, offset, limit) ==
    SubSeq(results, offset + 1,
           IF offset + limit < Len(results) THEN offset + limit ELSE Len(results))

\* the results that the page query can deliver
search_card_index(index, query_params, limit, offset) ==
    {Page(results, offset, limit) :
        results \in OrderByName({r \in Rows(index) :
                                    search_card_index_conditions(r, query_params)})}

\* core/deps.py: offset and limit of a page (page >= 1, per_page >= 1)
get_pagination_params(page, per_page) ==
    [offset |-> (page - 1) * per_page, limit |-> per_page]

\* math.ceil(total / per_page)
total_pages(total, per_page) == (total + per_page - 1) \div per_page

Range(seq) == {seq[k] : k \in 1..Len(seq)}

\* ---------------------------------------------------------- call frames
\* history kept with a call: both cache tiers and the TTL windows as they
\* were when the call started
NoPre == [cards |-> <<>>, redis |-> <<>>, fresh_until |-> <<>>]
Pre   == [cards |-> cards, redis |-> redis, fresh_until |-> fresh_until]

Idle == [pc |-> "idle", op |-> "none", nested |-> FALSE, id |-> "none",
         force_refresh |-> FALSE, reason |-> "none", days |-> 0,
         outcome |-> "none", card_data |-> "none", card_kind |-> "none", card_pk |-> 0,
         expired_cards |-> {}, count |-> 0, result |-> "none", err |-> "none",
         request |-> <<>>, total |-> 0, index_results |-> <<>>, todo |-> <<>>,
         detailed_cards |-> <<>>, failed |-> {},
         trace |-> <<>>, pre |-> NoPre]

AllIdle == \A p \in Procs : proc[p].pc = "idle"

Put(p, f) == proc' = [proc EXCEPT ![p] = f]

\* the frame a call of get_card_details starts in: both cache lookups are
\* skipped under force_refresh
Enter(f) == [f EXCEPT !.pc = IF f.force_refresh THEN "index" ELSE "hot"]

\* search_cards_with_details, lines 177-189: the loop goes on to the next
\* card of index_results with get_card_details, or returns detailed_cards
NextCard(f) ==
    LET g == [f EXCEPT !.outcome = "none", !.card_data = "none",
                       !.card_kind = "none", !.card_pk = 0]
    IN  IF g.todo = <<>>
        THEN [g EXCEPT !.pc = "done", !.id = "none", !.result = "detailed_cards"]
        ELSE Enter([g EXCEPT !.id = Head(g.todo), !.todo = Tail(g.todo)])

\* get_card_details returns card: to its caller, back into
\* make_card_permanent, or into the loop of search_cards_with_details, which
\* appends it
Returned(f, kind, pk) ==
    CASE f.op = "search" -> NextCard([f EXCEPT !.detailed_cards = Append(@, f.id)])
      [] f.op # "search" /\ f.nested ->
             [f EXCEPT !.pc = "mark", !.card_kind = kind, !.card_pk = pk]
      [] OTHER ->
             [f EXCEPT !.pc = "done", !.card_kind = kind, !.card_pk = pk, !.result = "card"]

\* a search that lets the exception of get_card_details pass
Raised_Abort(f, e) == [f EXCEPT !.pc = "done", !.err = e]

\* an exception leaves the coroutine (make_card_permanent catches nothing);
\* in search_cards_with_details it is caught by `except Exception: continue`
Raised(f, e) ==
    IF f.op = "search"
    THEN NextCard([f EXCEPT !.failed = @ \cup {f.id}])
    ELSE [f EXCEPT !.pc = "done", !.err = e]

Log(f, ev) == [f EXCEPT !.trace = Append(@, ev)]

\* ------------------------------------------------------ limiter frames
\* a caller outside wait_if_needed
NotWaiting == [pc |-> "out", wake |-> 0]

\* ScryfallRateLimiter.__init__: last_request_time = 0.0; the wall clock is
\* far more than min_interval past the epoch
RateInit ==
    /\ rl_clock = MinInterval
    /\ last_request_time = 0
    /\ waiter = [p \in Procs |-> NotWaiting]
    /\ releases = <<>>

\* --------------------------------------------------- bootstrap frames
\* the dump files: a JSON array of at most MaxDump records, or (Truncated)
\* bytes that json.load rejects
SeqsUpTo(S, n) == UNION {[1..k -> S] : k \in 0..n}
Truncated  == [valid |-> FALSE, cards_data |-> <<>>]
Files   == {[valid |-> TRUE, cards_data |-> d] : d \in SeqsUpTo(DumpRecords, MaxDump)}
            \cup {Truncated}

\* what the streamed download can do: deliver a file, fail before the temp
\* file is opened (raise_for_status), or fail while the chunks are written
Downloads == {[kind |-> "ok", file |-> f] : f \in Files}
              \cup {[kind |-> k, file |-> Truncated] : k \in {"http_error", "stream_error"}}

\* the downloads that deliver a dump of LoaderRecords
LoaderDownloads ==
    {[kind |-> "ok", file |-> [valid |-> TRUE, cards_data |-> d]] :
        d \in SeqsUpTo(LoaderRecords, MaxDump)}

BootIdle == [pc |-> "idle", waited |-> FALSE, index_at_call |-> {}, card_count |-> 0,
             data_type |-> "none", temp_file |-> 0, cards_data |-> <<>>, file |-> Truncated,
             batch |-> <<>>, processed |-> 0, inserted |-> 0,
             status |-> "none", error |-> "none", has_duration |-> FALSE,
             raised |-> "none", failed_at |-> "none", card_count_end |-> 0,
             insert_failed |-> FALSE, submitted |-> <<>>, trace |-> <<>>]

\* StartupService.__init__
NotStarted == [pc |-> "not_started", errors |-> {}, status |-> "none", complete |-> FALSE]

\* CardDataService.__init__, StartupService.__init__
BootInit ==
    /\ lock = 0
    /\ is_initializing = FALSE
    /\ boot = [p \in Procs |-> BootIdle]
    /\ temp_files = {}
    /\ startup = NotStarted

Init ==
    /\ now = 0
    /\ cards_index = {}
    /\ cards = [i \in Ids |-> NoRow]
    /\ redis = [i \in Ids |-> 0]
    /\ redis_up = TRUE
    /\ proc = [p \in Procs |-> Idle]
    /\ fresh_until = [i \in Ids |-> 0]
    /\ RateInit
    /\ BootInit

\* ------------------------------------------- CardDetailsService.get_card_details
NotFound == "ResourceNotFoundError"
External == "ExternalServiceError"
Stale    == "StaleDataError"

StartGet(p, i, force) ==
    /\ proc[p].pc = "idle"
    /\ Put(p, Enter([Idle EXCEPT !.op = "get", !.id = i, !.force_refresh = force,
                                 !.pre = Pre]))
    /\ UNCHANGED <<now, cards_index, cards, redis, redis_up, fresh_until, ratevars, bootvars>>

\* a hot tier whose errors reach the caller of get_card_details
GetHot_Raising(p) ==
    LET f == proc[p] IN
    /\ f.pc = "hot"
    /\ CASE ~redis_up ->
              /\ Put(p, Raised(Log(f, "hot_error"), "RedisError"))
              /\ UNCHANGED <<redis, fresh_until>>
         [] redis_up /\ HotLive(f.id) ->
              /\ redis' = [redis EXCEPT ![f.id] = now + HotTTL]
              /\ Put(p, Returned(Log(f, "hot_hit"), "transient", 0))
              /\ fresh_until' = [fresh_until EXCEPT ![f.id] = now + HotTTL]
         [] OTHER ->
              /\ Put(p, [Log(f, "hot_miss") EXCEPT !.pc = "warm"])
              /\ UNCHANGED <<redis, fresh_until>>
    /\ UNCHANGED <<now, cards_index, cards, redis_up, ratevars, bootvars>>

\* a hot hit that reads the key without EXPIRE
GetHot_NoExpire(p) ==
    LET f == proc[p] IN
    /\ f.pc = "hot"
    /\ IF redis_up /\ HotLive(f.id)
       THEN /\ Put(p, Returned(Log(f, "hot_hit"), "transient", 0))
            /\ fresh_until' = [fresh_until EXCEPT ![f.id] = redis[f.id]]
            /\ UNCHANGED redis
       ELSE /\ Put(p, [Log(f, "hot_miss") EXCEPT !.pc = "warm"])
            /\ UNCHANGED <<redis, fresh_until>>
    /\ UNCHANGED <<now, cards_index, cards, redis_up, ratevars, bootvars>>

\* 1. RedisService.get_cached_card_details: GET, then EXPIRE on a hit; any
\*    Redis error reads as a miss.  A hit is answered with the transient Card
\*    of _create_card_from_cache_data.
GetHot(p) ==
    LET f == proc[p] IN
    /\ f.pc = "hot"
    /\ IF redis_up /\ HotLive(f.id)
       THEN /\ redis' = [redis EXCEPT ![f.id] = now + HotTTL]
            /\ Put(p, Returned(Log(f, "hot_hit"), "transient", 0))
            /\ fresh_until' = [fresh_until EXCEPT ![f.id] = now + HotTTL]
       ELSE /\ Put(p, [Log(f, "hot_miss") EXCEPT !.pc = "warm"])
            /\ UNCHANGED <<redis, fresh_until>>
    /\ UNCHANGED <<now, cards_index, cards, redis_up, ratevars, bootvars>>

\* 2. _get_cached_card
GetWarm(p) ==
    LET f == proc[p] IN
    /\ f.pc = "warm"
    /\ IF cards[f.id] # NoRow
       THEN Put(p, [Log(f, "warm_hit") EXCEPT !.pc = "touch",
                        !.card_kind = "persistent", !.card_pk = cards[f.id].pk])
       ELSE Put(p, [Log(f, "warm_miss") EXCEPT !.pc = "index"])
    /\ UNCHANGED <<now, cards_index, cards, redis, redis_up, fresh_until, ratevars, bootvars>>

\* a read that restarts the age of the row
GetTouch_Recache(p) ==
    LET f == proc[p] IN
    /\ f.pc = "touch"
    /\ IF cards[f.id].pk = f.card_pk
       THEN /\ cards' = [cards EXCEPT ![f.id] = [update_access_time(@) EXCEPT !.cached_at = now]]
            /\ Put(p, [Log(f, "warm_touch") EXCEPT !.pc = "cache_warm"])
       ELSE /\ Put(p, Raised(f, Stale))
            /\ UNCHANGED cards
    /\ UNCHANGED <<now, cards_index, redis, redis_up, fresh_until, ratevars, bootvars>>

\* _update_access_time: UPDATE cards ... WHERE id = pk, commit; the flush
\* raises StaleDataError when the row is gone
GetTouch(p) ==
    LET f == proc[p] IN
    /\ f.pc = "touch"
    /\ IF cards[f.id].pk = f.card_pk
       THEN /\ cards' = [cards EXCEPT ![f.id] = update_access_time(@)]
            /\ Put(p, [Log(f, "warm_touch") EXCEPT !.pc = "cache_warm"])
       ELSE /\ Put(p, Raised(f, Stale))
            /\ UNCHANGED cards
    /\ UNCHANGED <<now, cards_index, redis, redis_up, fresh_until, ratevars, bootvars>>

\* a hot tier that is never written
cache_card_details_Noop(i) == redis

\* RedisService.cache_card_details: SETEX with default_ttl; a Redis error is
\* logged and swallowed
cache_card_details(i) ==
    IF redis_up THEN [redis EXCEPT ![i] = now + HotTTL] ELSE redis

\* line 89-90: populate the hot tier from the warm row, return the row
GetCacheWarm(p) ==
    LET f == proc[p] IN
    /\ f.pc = "cache_warm"
    /\ redis' = cache_card_details(f.id)
    /\ Put(p, Returned(Log(f, "hot_populate"), "persistent", f.card_pk))
    /\ fresh_until' = [fresh_until EXCEPT ![f.id] = now + HotTTL]
    /\ UNCHANGED <<now, cards_index, cards, redis_up, ratevars, bootvars>>

\* a lookup that goes to the source without asking the index
GetIndex_NoCheck(p) ==
    LET f == proc[p] IN
    /\ f.pc = "index"
    /\ Put(p, [Log(f, "index_ok") EXCEPT !.pc = "wait"])
    /\ UNCHANGED <<now, cards_index, cards, redis, redis_up, fresh_until, ratevars, bootvars>>

\* an index check that goes on to the source without the rate limiter
GetIndex_NoWait(p) ==
    LET f == proc[p] IN
    /\ f.pc = "index"
    /\ IF f.id \in cards_index
       THEN Put(p, [Log(f, "index_ok") EXCEPT !.pc = "fetch"])
       ELSE Put(p, Raised(Log(f, "index_missing"), NotFound))
    /\ UNCHANGED <<now, cards_index, cards, redis, redis_up, fresh_until, ratevars, bootvars>>

\* 3. _get_index_card
GetIndex(p) ==
    LET f == proc[p] IN
    /\ f.pc = "index"
    /\ IF f.id \in cards_index
       THEN Put(p, [Log(f, "index_ok") EXCEPT !.pc = "wait"])
       ELSE Put(p, Raised(Log(f, "index_missing"), NotFound))
    /\ UNCHANGED <<now, cards_index, cards, redis, redis_up, fresh_until, ratevars, bootvars>>

\* ScryfallRateLimiter.wait_if_needed, first statement of _fetch_from_scryfall:
\* sleeps out the rest of min_interval (a tenth of a second, below the
\* resolution of the clock) and stamps last_request_time
GetWait(p) ==
    LET f == proc[p] IN
    /\ f.pc = "wait"
    /\ Put(p, [Log(f, "wait") EXCEPT !.pc = "fetch"])
    /\ UNCHANGED <<now, cards_index, cards, redis, redis_up, fresh_until, ratevars, bootvars>>

\* a fetch without response.raise_for_status(): the body of an error
\* response is taken for the card
fetch_from_scryfall_NoRaise(outcome) ==
    CASE outcome = "ok"            -> "payload"
      [] outcome = "missing_field" -> "missing_field"
      [] outcome = "http_404"      -> "None"
      [] outcome = "http_error"    -> "payload"
      [] OTHER                     -> "raise"

\* _fetch_from_scryfall after the wait: what the call hands back for an
\* answer of the source.  404 is answered with None, every other
\* HTTPStatusError and every RequestError is re-raised, a body that is not
\* JSON makes response.json() raise.
fetch_from_scryfall(outcome) ==
    CASE outcome = "ok"            -> "payload"
      [] outcome = "missing_field" -> "missing_field"
      [] outcome = "http_404"      -> "None"
      [] OTHER                     -> "raise"

\* lines 99-115: whatever is raised inside the try block, the
\* ResourceNotFoundError of line 102 included, is caught by
\* `except Exception` and re-raised as ExternalServiceError
LeavesTry(e) == External

\* 4. lines 100-102
GetFetch(p, outcome) ==
    LET f == [Log(proc[p], "fetch") EXCEPT !.outcome = outcome]
        card_data == fetch_from_scryfall(outcome) IN
    /\ proc[p].pc = "fetch"
    /\ CASE card_data = "raise" -> Put(p, Raised(f, LeavesTry("HTTPError")))
         [] card_data = "None"  -> Put(p, Raised(f, LeavesTry(NotFound)))
         [] OTHER               -> Put(p, [f EXCEPT !.pc = "store", !.card_data = card_data])
    /\ UNCHANGED <<now, cards_index, cards, redis, redis_up, fresh_until, ratevars, bootvars>>

\* a warm tier without the unique index on cards.scryfall_id: the commit
\* inserts a second row for the id
GetStore_NoUnique(p) ==
    LET f == proc[p] IN
    /\ f.pc = "store"
    /\ IF f.card_data = "missing_field"
       THEN /\ Put(p, Raised(f, LeavesTry("KeyError")))
            /\ UNCHANGED cards
       ELSE /\ cards' = [cards EXCEPT ![f.id] = NewCard(FreshPk(f.id))]
            /\ Put(p, [Log(f, "warm_persist") EXCEPT !.pc = "cache",
                           !.card_kind = "persistent", !.card_pk = FreshPk(f.id)])
    /\ UNCHANGED <<now, cards_index, redis, redis_up, fresh_until, ratevars, bootvars>>

\* _store_card_details: card_data['id'] / ['name'] raise KeyError before the
\* row is built; session.add + commit insert the row, and the unique index
\* on cards.scryfall_id rejects a second row for the id (IntegrityError)
GetStore(p) ==
    LET f == proc[p] IN
    /\ f.pc = "store"
    /\ CASE f.card_data = "missing_field" ->
              /\ Put(p, Raised(f, LeavesTry("KeyError")))
              /\ UNCHANGED cards
         [] f.card_data # "missing_field" /\ cards[f.id] # NoRow ->
              /\ Put(p, Raised(f, LeavesTry("IntegrityError")))
              /\ UNCHANGED cards
         [] OTHER ->
              /\ cards' = [cards EXCEPT ![f.id] = NewCard(FreshPk(f.id))]
              /\ Put(p, [Log(f, "warm_persist") EXCEPT !.pc = "cache",
                             !.card_kind = "persistent", !.card_pk = FreshPk(f.id)])
    /\ UNCHANGED <<now, cards_index, redis, redis_up, fresh_until, ratevars, bootvars>>

\* lines 107-111: populate the hot tier, return the stored row
GetCache(p) ==
    LET f == proc[p] IN
    /\ f.pc = "cache"
    /\ redis' = cache_card_details(f.id)
    /\ Put(p, Returned(Log(f, "hot_populate"), "persistent", f.card_pk))
    /\ fresh_until' = [fresh_until EXCEPT ![f.id] = now + HotTTL]
    /\ UNCHANGED <<now, cards_index, cards, redis_up, ratevars, bootvars>>

\* _create_card_from_cache_data: the Card built from the Redis payload is a
\* new object with storage_reason search_cache, permanent False and both
\* timestamps now; no column of a warm row goes into it
create_card_from_cache_data ==
    [pk |-> 0, storage_reason |-> SEARCH_CACHE, permanent |-> FALSE,
     cached_at |-> now, last_accessed |-> now]

\* the Card that a finished get_card_details of frame f handed to its
\* caller: the object built from the hot payload, or the row of the session
ReturnedCard(f) ==
    IF f.card_kind = "transient" THEN create_card_from_cache_data ELSE cards[f.id]

\* the caller has its answer (a value or an exception); the frame is dropped
Return(p) ==
    /\ proc[p].pc = "done"
    /\ Put(p, Idle)
    /\ UNCHANGED <<now, cards_index, cards, redis, redis_up, fresh_until, ratevars, bootvars>>

\* ---------------------------------------- CardDetailsService.make_card_permanent
StartPromote(p, i, reason) ==
    /\ proc[p].pc = "idle"
    /\ Put(p, [Idle EXCEPT !.op = "promote", !.pc = "promote_lookup", !.id = i,
                           !.reason = reason, !.pre = Pre])
    /\ UNCHANGED <<now, cards_index, cards, redis, redis_up, fresh_until, ratevars, bootvars>>

\* lines 136-139: _get_cached_card; without a row, get_card_details(id)
PromoteLookup(p) ==
    LET f == proc[p] IN
    /\ f.pc = "promote_lookup"
    /\ IF cards[f.id] # NoRow
       THEN Put(p, [f EXCEPT !.pc = "mark", !.card_kind = "persistent",
                             !.card_pk = cards[f.id].pk])
       ELSE Put(p, Enter([f EXCEPT !.nested = TRUE]))
    /\ UNCHANGED <<now, cards_index, cards, redis, redis_up, fresh_until, ratevars, bootvars>>

\* lines 143-151: card.make_permanent(reason), commit, return True.  The
\* commit writes the row only when card is a row of the session; the Card
\* that a hot hit hands back is not (it was never added), so nothing is
\* written for it.  `if not card: return False` never fires:
\* get_card_details returns a Card or raises.
PromoteMark(p) ==
    LET f == proc[p] IN
    /\ f.pc = "mark"
    /\ CASE f.card_kind = "transient" ->
              /\ Put(p, [Log(f, "commit") EXCEPT !.pc = "done", !.result = "True"])
              /\ UNCHANGED cards
         [] f.card_kind # "transient" /\ cards[f.id].pk = f.card_pk ->
              /\ cards' = [cards EXCEPT ![f.id] = make_permanent(@, f.reason)]
              /\ Put(p, [Log(f, "commit") EXCEPT !.pc = "done", !.result = "True"])
         [] OTHER ->
              /\ Put(p, Raised(f, Stale))
              /\ UNCHANGED cards
    /\ UNCHANGED <<now, cards_index, redis, redis_up, fresh_until, ratevars, bootvars>>

\* ------------------------------- CardDetailsService.search_cards_with_details
StartSearch(p, query_params, limit, offset) ==
    /\ proc[p].pc = "idle"
    /\ Put(p, [Idle EXCEPT !.op = "search", !.pc = "search_index",
                           !.request = [filters |-> query_params, limit |-> limit,
                                        offset |-> offset],
                           !.pre = Pre])
    /\ UNCHANGED <<now, cards_index, cards, redis, redis_up, fresh_until, ratevars, bootvars>>

\* line 173: _search_card_index, then the loop starts
SearchCardIndex(p) ==
    LET f == proc[p] IN
    /\ f.pc = "search_index"
    /\ \E index_results \in search_card_index(cards_index, f.request.filters,
                                              f.request.limit, f.request.offset) :
          Put(p, NextCard([Log(f, "search_index") EXCEPT !.index_results = index_results,
                                                         !.todo = index_results]))
    /\ UNCHANGED <<now, cards_index, cards, redis, redis_up, fresh_until, ratevars, bootvars>>

\* -------------------------------------- CardDetailsService.cleanup_expired_cache
StartSweep(p, days) ==
    /\ proc[p].pc = "idle"
    /\ Put(p, [Idle EXCEPT !.op = "sweep", !.pc = "sweep_select", !.days = days,
                           !.pre = Pre])
    /\ UNCHANGED <<now, cards_index, cards, redis, redis_up, fresh_until, ratevars, bootvars>>

\* lines 310-320: the SELECT; expired_cards holds the loaded Card objects
SweepSelect(p) ==
    LET f == proc[p]
        cutoff_date == now - f.days IN
    /\ f.pc = "sweep_select"
    /\ Put(p, [f EXCEPT !.pc = "sweep_delete",
                 !.expired_cards = {[scryfall_id |-> i, pk |-> cards[i].pk,
                                     cached_at |-> cards[i].cached_at] :
                                    i \in {j \in Ids : cards[j] # NoRow
                                                       /\ IsExpired(cards[j], cutoff_date)}}])
    /\ UNCHANGED <<now, cards_index, cards, redis, redis_up, fresh_until, ratevars, bootvars>>

\* the row a DELETE FROM cards WHERE id = pk of the flush removes
Deletes(expired_cards, i) ==
    \E c \in expired_cards : c.scryfall_id = i /\ c.pk = cards[i].pk

\* lines 322-329: session.delete per loaded object, commit, return the
\* length of the selected list
SweepDelete(p) ==
    LET f == proc[p] IN
    /\ f.pc = "sweep_delete"
    /\ cards' = [i \in Ids |-> IF Deletes(f.expired_cards, i) THEN NoRow ELSE cards[i]]
    /\ Put(p, [f EXCEPT !.pc = "done", !.result = "count",
                        !.count = Cardinality(f.expired_cards)])
    /\ UNCHANGED <<now, cards_index, redis, redis_up, fresh_until, ratevars, bootvars>>

\* ------------------------------------------------------------ environment
\* a day passes; Redis drops the keys whose TTL ran out
Tick ==
    /\ now < MaxTime
    /\ now' = now + 1
    /\ redis' = [i \in Ids |-> IF redis[i] <= now + 1 THEN 0 ELSE redis[i]]
    /\ fresh_until' = [i \in Ids |-> IF fresh_until[i] <= now + 1 THEN 0 ELSE fresh_until[i]]
    /\ UNCHANGED <<cards_index, cards, redis_up, proc, ratevars, bootvars>>

\* CardDataService._clear_index: TRUNCATE TABLE cards_index
ClearIndex ==
    /\ cards_index # {}
    /\ cards_index' = {}
    /\ UNCHANGED <<now, cards, redis, redis_up, proc, fresh_until, ratevars, bootvars>>

\* CardDataService._insert_batch: INSERT ... ON CONFLICT (scryfall_id) DO NOTHING
InsertBatch(batch) ==
    /\ ~(batch \subseteq cards_index)
    /\ cards_index' = cards_index \cup batch
    /\ UNCHANGED <<now, cards, redis, redis_up, proc, fresh_until, ratevars, bootvars>>

\* ---------------------------------------- ScryfallRateLimiter.wait_if_needed
\* a limiter that does not sleep
wait_time_Zero(current_time, last) == 0

\* line 43: wait_time = min_interval - time_since_last
wait_time(current_time, last) == MinInterval - (current_time - last)

\* line 48: last_request_time = utcnow().timestamp(); the call returns
Stamp ==
    /\ last_request_time' = rl_clock
    /\ releases' = Append(releases, rl_clock)

\* lines 38-45, and line 48 when there is nothing to wait for: the clock is
\* read and compared with last_request_time; a caller that has to wait is
\* suspended in asyncio.sleep(wait_time)
wait_if_needed(p) ==
    LET current_time    == rl_clock
        time_since_last == current_time - last_request_time IN
    /\ waiter[p].pc = "out"
    /\ Len(releases) + Cardinality({q \in Procs : waiter[q].pc = "sleep"}) < MaxCalls
    /\ IF time_since_last < MinInterval
       THEN /\ waiter' = [waiter EXCEPT ![p] =
                            [pc |-> "sleep",
                             wake |-> current_time + wait_time(current_time, last_request_time)]]
            /\ UNCHANGED <<last_request_time, releases>>
       ELSE /\ Stamp
            /\ UNCHANGED waiter
    /\ UNCHANGED <<rl_clock, cachevars, bootvars>>

\* asyncio.sleep returns once wait_time has passed, possibly later; line 48
WakeUp(p) ==
    /\ waiter[p].pc = "sleep"
    /\ rl_clock >= waiter[p].wake
    /\ Stamp
    /\ waiter' = [waiter EXCEPT ![p] = NotWaiting]
    /\ UNCHANGED <<rl_clock, cachevars, bootvars>>

\* time passes
ClockTick ==
    /\ rl_clock < MaxClock
    /\ rl_clock' = rl_clock + 1
    /\ UNCHANGED <<last_request_time, waiter, releases, cachevars, bootvars>>

\* ------------------------------------------ CardDataService.ensure_initialized
BPut(p, f) == boot' = [boot EXCEPT ![p] = f]

BLog(f, ev) == [f EXCEPT !.trace = Append(@, ev)]

\* a guard that lets every caller in
LockFree_Always == TRUE

\* asyncio.Lock.locked() is False
LockFree == lock = 0

\* `async with self._initialization_lock`: taken at once when free,
\* otherwise the caller is suspended until it is released
EnterEnsure(p) ==
    IF LockFree
    THEN /\ lock' = p
         /\ BPut(p, [BootIdle EXCEPT !.pc = "count", !.index_at_call = cards_index])
    ELSE /\ BPut(p, [BootIdle EXCEPT !.pc = "acquire", !.waited = TRUE,
                                     !.index_at_call = cards_index])
         /\ UNCHANGED lock

\* a call of ensure_initialized from outside the startup sequence
ensure_initialized(p) ==
    /\ p # StartupProc
    /\ boot[p].pc = "idle"
    /\ EnterEnsure(p)
    /\ UNCHANGED <<is_initializing, temp_files, startup, cards_index,
                   now, cards, redis, redis_up, proc, fresh_until, ratevars>>

\* a suspended caller gets the lock
AcquireLock(p) ==
    /\ boot[p].pc = "acquire"
    /\ LockFree
    /\ lock' = p
    /\ BPut(p, [boot[p] EXCEPT !.pc = "count"])
    /\ UNCHANGED <<is_initializing, temp_files, startup, cards_index,
                   now, cards, redis, redis_up, proc, fresh_until, ratevars>>

\* an index that counts as valid only above the minimum
IndexValid_Strict(card_count) == card_count > MinCards

\* line 73: card_count >= min_cards
IndexValid(card_count) == card_count >= MinCards

\* a count taken when ensure_initialized was called, before the lock
CheckCount_Stale(p, db_ok) ==
    LET f == BLog(boot[p], "count")
        card_count == Cardinality(boot[p].index_at_call) IN
    /\ boot[p].pc = "count"
    /\ CASE ~db_ok ->
              /\ BPut(p, [f EXCEPT !.pc = "done", !.raised = "SQLAlchemyError"])
              /\ lock' = 0
              /\ UNCHANGED is_initializing
         [] db_ok /\ IndexValid(card_count) ->
              /\ BPut(p, [f EXCEPT !.pc = "done", !.status = "already_initialized",
                                   !.card_count = card_count])
              /\ lock' = 0
              /\ UNCHANGED is_initializing
         [] OTHER ->
              /\ BPut(p, [f EXCEPT !.pc = "manifest", !.card_count = card_count])
              /\ is_initializing' = TRUE
              /\ UNCHANGED lock
    /\ UNCHANGED <<temp_files, startup, cards_index,
                   now, cards, redis, redis_up, proc, fresh_until, ratevars>>

\* lines 70-86: get_index_count under the lock (a database error leaves
\* ensure_initialized as an exception); at or above the minimum the call
\* returns already_initialized, below it _download_and_populate starts and
\* sets _is_initializing
CheckCount(p, db_ok) ==
    LET f == BLog(boot[p], "count")
        card_count == Cardinality(cards_index) IN
    /\ boot[p].pc = "count"
    /\ CASE ~db_ok ->
              /\ BPut(p, [f EXCEPT !.pc = "done", !.raised = "SQLAlchemyError"])
              /\ lock' = 0
              /\ UNCHANGED is_initializing
         [] db_ok /\ IndexValid(card_count) ->
              /\ BPut(p, [f EXCEPT !.pc = "done", !.status = "already_initialized",
                                   !.card_count = card_count])
              /\ lock' = 0
              /\ UNCHANGED is_initializing
         [] OTHER ->
              /\ BPut(p, [f EXCEPT !.pc = "manifest", !.card_count = card_count])
              /\ is_initializing' = TRUE
              /\ UNCHANGED lock
    /\ UNCHANGED <<temp_files, startup, cards_index,
                   now, cards, redis, redis_up, proc, fresh_until, ratevars>>

\* ------------------------------------------ CardDataService._download_and_populate
\* the locals of _process_bulk_file and the handle of the temp file go
\* with the call
Dropped(f) ==
    [f EXCEPT !.temp_file = 0, !.file = Truncated, !.cards_data = <<>>, !.batch = <<>>]

\* a pipeline whose exceptions leave ensure_initialized
Failed_Propagate(f, stage, e) ==
    [Dropped(f) EXCEPT !.pc = "done", !.raised = e, !.failed_at = stage,
                       !.data_type = "none", !.processed = 0, !.inserted = 0]

\* lines 149-156: `except Exception` turns what was raised at stage into
\* the result {'status': 'error', 'error': str(e), 'duration_seconds': ...}
Failed(f, stage, e) ==
    [Dropped(f) EXCEPT !.pc = "done", !.status = "error", !.error = e,
                       !.has_duration = TRUE, !.failed_at = stage,
                       !.data_type = "none", !.processed = 0, !.inserted = 0]

\* lines 136-142
Succeeded(f) ==
    [Dropped(f) EXCEPT !.pc = "done", !.status = "success", !.has_duration = TRUE]

\* a pipeline that resets the flag on its successful return only
Leave_FlagOnSuccess(p, f, index) ==
    /\ BPut(p, [f EXCEPT !.card_count_end = Cardinality(index)])
    /\ is_initializing' = (is_initializing /\ f.status # "success")
    /\ lock' = 0

\* _download_and_populate returns through `finally: self._is_initializing =
\* False`, and ensure_initialized leaves the `async with`
Leave(p, f, index) ==
    /\ BPut(p, [f EXCEPT !.card_count_end = Cardinality(index)])
    /\ is_initializing' = FALSE
    /\ lock' = 0

\* a pipeline that clears the index as soon as it knows the manifest
GetBulkDataInfo_ClearFirst(p, m) ==
    LET f == BLog(boot[p], "manifest") IN
    /\ boot[p].pc = "manifest"
    /\ CASE m = "raise" ->
              /\ Leave(p, Failed(f, "manifest", "HTTPError"), cards_index)
              /\ UNCHANGED cards_index
         [] m = "none" ->
              /\ Leave(p, Failed(f, "manifest", External), cards_index)
              /\ UNCHANGED cards_index
         [] OTHER ->
              /\ BPut(p, [f EXCEPT !.pc = "download", !.data_type = m])
              /\ cards_index' = {}
              /\ UNCHANGED <<lock, is_initializing>>
    /\ UNCHANGED <<temp_files, startup,
                   now, cards, redis, redis_up, proc, fresh_until, ratevars>>

\* lines 93-117: _get_bulk_data_info, choice of default_cards over
\* oracle_cards; without either an ExternalServiceError is raised
GetBulkDataInfo(p, m) ==
    LET f == BLog(boot[p], "manifest") IN
    /\ boot[p].pc = "manifest"
    /\ CASE m = "raise" ->
              /\ Leave(p, Failed(f, "manifest", "HTTPError"), cards_index)
         [] m = "none" ->
              /\ Leave(p, Failed(f, "manifest", External), cards_index)
         [] OTHER ->
              /\ BPut(p, [f EXCEPT !.pc = "download", !.data_type = m])
              /\ UNCHANGED <<lock, is_initializing>>
    /\ UNCHANGED <<temp_files, startup, cards_index,
                   now, cards, redis, redis_up, proc, fresh_until, ratevars>>

\* line 120, _download_bulk_file: the temp file is named by mktemp and
\* created when the first chunk is about to be written; a failure before
\* that leaves no file, a failure while streaming leaves the file behind
\* (temp_file is not bound yet, the inner try not entered)
DownloadBulkFile(p, d) ==
    LET f == BLog(boot[p], "download") IN
    /\ boot[p].pc = "download"
    /\ CASE d.kind = "http_error" ->
              /\ Leave(p, Failed(f, "download", "HTTPError"), cards_index)
              /\ UNCHANGED temp_files
         [] d.kind = "stream_error" ->
              /\ Leave(p, Failed(f, "download", "HTTPError"), cards_index)
              /\ temp_files' = temp_files \cup {p}
         [] OTHER ->
              /\ BPut(p, [f EXCEPT !.pc = "clear", !.temp_file = p, !.file = d.file])
              /\ temp_files' = temp_files \cup {p}
              /\ UNCHANGED <<lock, is_initializing>>
    /\ UNCHANGED <<startup, cards_index,
                   now, cards, redis, redis_up, proc, fresh_until, ratevars>>

\* lines 144-147: the inner finally removes the temp file
Unlink(f) == temp_files' = temp_files \ {f.temp_file}

\* line 124, _clear_index: TRUNCATE TABLE cards_index, commit
PipelineClear(p, db_ok) ==
    LET f == BLog(boot[p], "clear") IN
    /\ boot[p].pc = "clear"
    /\ IF db_ok
       THEN /\ cards_index' = {}
            /\ BPut(p, [f EXCEPT !.pc = "parse"])
            /\ UNCHANGED <<lock, is_initializing, temp_files>>
       ELSE /\ Leave(p, Failed(f, "clear", "SQLAlchemyError"), cards_index)
            /\ Unlink(f)
            /\ UNCHANGED cards_index
    /\ UNCHANGED <<startup, now, cards, redis, redis_up, proc, fresh_until, ratevars>>

\* a filter that lets the non-playable set types through
process_card_AnySetType(card) ==
    CASE card.layout \in {"token", "double_faced_token", "art_series", "emblem"} -> "None"
      [] card.id = "" \/ card.name = "" -> "None"
      [] OTHER -> card.id

\* _process_card lines 235-246: the index entry of a record (its
\* scryfall_id stands for it), None for a skipped one.  The layouts of a
\* dump are lower case, so layout.lower() leaves them as they are.
process_card(card) ==
    CASE card.layout \in {"token", "double_faced_token", "art_series", "emblem"} -> "None"
      [] card.set_type \in {"memorabilia", "token", "minigame"} -> "None"
      [] card.id = "" \/ card.name = "" -> "None"
      [] OTHER -> card.id

\* the loop of _process_bulk_file up to its next await: records are taken
\* from cards_data until the batch is full or the data is used up
RECURSIVE FillBatch(_, _, _)
FillBatch(cards_data, batch, processed) ==
    IF cards_data = <<>> \/ Len(batch) >= BatchSize
    THEN [cards_data |-> cards_data, batch |-> batch, processed |-> processed]
    ELSE LET index_entry == process_card(Head(cards_data)) IN
         FillBatch(Tail(cards_data),
                   IF index_entry # "None" THEN Append(batch, index_entry) ELSE batch,
                   processed + 1)

\* the frame after the loop has run on: at the next _insert_batch, or, with
\* nothing left to insert, at the return of lines 129-147
Continue(p, f) ==
    LET fill == FillBatch(f.cards_data, <<>>, f.processed)
        g    == [f EXCEPT !.cards_data = fill.cards_data, !.batch = fill.batch,
                          !.processed = fill.processed] IN
    IF fill.batch # <<>>
    THEN /\ BPut(p, [g EXCEPT !.pc = "insert"])
         /\ UNCHANGED <<lock, is_initializing, temp_files>>
    ELSE /\ Leave(p, Succeeded(g), cards_index')
         /\ Unlink(f)

\* lines 203-204: json.load of the whole file
ProcessBulkFile(p) ==
    LET f == BLog(boot[p], "parse") IN
    /\ boot[p].pc = "parse"
    /\ UNCHANGED cards_index
    /\ IF f.file.valid
       THEN Continue(p, [f EXCEPT !.cards_data = f.file.cards_data])
       ELSE /\ Leave(p, Failed(f, "parse", "JSONDecodeError"), cards_index)
            /\ Unlink(f)
    /\ UNCHANGED <<startup, now, cards, redis, redis_up, proc, fresh_until, ratevars>>

\* an INSERT without ON CONFLICT: a batch that brings an id the table
\* holds, or brings an id twice, violates the primary key and is rolled back
on_conflict_do_nothing_Plain(index, batch) ==
    LET ids == {batch[k] : k \in 1..Len(batch)} IN
    IF ids \cap index # {} \/ Cardinality(ids) < Len(batch)
    THEN index
    ELSE index \cup ids

\* lines 304-307: INSERT ... VALUES (records) ON CONFLICT (scryfall_id) DO
\* NOTHING; scryfall_id is the primary key of cards_index, so a row is
\* added for each id the table does not hold yet
on_conflict_do_nothing(index, batch) ==
    index \cup {batch[k] : k \in 1..Len(batch)}

\* a load that gives up at the first batch that fails
InsertBatchStep_Abort(p, db_ok) ==
    LET f == BLog(boot[p], "insert") IN
    /\ boot[p].pc = "insert"
    /\ IF db_ok
       THEN /\ cards_index' = on_conflict_do_nothing(cards_index, f.batch)
            /\ Continue(p, [f EXCEPT !.inserted = @ + Len(f.batch)])
       ELSE /\ cards_index' = cards_index
            /\ Leave(p, Failed([f EXCEPT !.insert_failed = TRUE], "insert", "SQLAlchemyError"),
                     cards_index)
            /\ Unlink(f)
    /\ UNCHANGED <<startup, now, cards, redis, redis_up, proc, fresh_until, ratevars>>

\* _insert_batch: one INSERT ... ON CONFLICT (scryfall_id) DO NOTHING and
\* its commit; an error is rolled back and counted as 0 rows, a success as
\* len(records); the loop of _process_bulk_file goes on either way
InsertBatchStep(p, db_ok) ==
    LET f == BLog(boot[p], "insert")
        count == IF db_ok THEN Len(f.batch) ELSE 0 IN
    /\ boot[p].pc = "insert"
    /\ cards_index' = IF db_ok
                      THEN on_conflict_do_nothing(cards_index, f.batch)
                      ELSE cards_index
    /\ Continue(p, [f EXCEPT !.inserted = @ + count,
                             !.insert_failed = @ \/ ~db_ok])
    /\ UNCHANGED <<startup, now, cards, redis, redis_up, proc, fresh_until, ratevars>>

\* --------------------------------------- StartupService.run_startup_sequence
\* steps 1 to 3 up to the call of ensure_initialized.  A failed storage or
\* table check is noted in startup_errors, a failed database check ends the
\* sequence as 'failed'.  With AUTO_INIT_CARD_INDEX off, step 3 only counts
\* the index, and the sequence runs to its end.
FinalStatus(errors) == IF errors # {} THEN "completed_with_warnings" ELSE "success"

run_startup_sequence(storage_ok, db_ok, tables_ok, auto_init) ==
    LET e1 == IF storage_ok THEN {} ELSE {"storage"}
        e2 == IF tables_ok THEN e1 ELSE e1 \cup {"tables"}
        e3 == IF cards_index # {} THEN e2 ELSE e2 \cup {"card_index"} IN
    /\ startup.pc = "not_started"
    /\ boot[StartupProc].pc = "idle"
    /\ CASE ~db_ok ->
              /\ startup' = [pc |-> "done", errors |-> e1 \cup {"database"},
                             status |-> "failed", complete |-> FALSE]
              /\ UNCHANGED <<lock, boot>>
         [] db_ok /\ ~auto_init ->
              /\ startup' = [pc |-> "done", errors |-> e3,
                             status |-> FinalStatus(e3), complete |-> TRUE]
              /\ UNCHANGED <<lock, boot>>
         [] OTHER ->
              /\ startup' = [pc |-> "index_init", errors |-> e2,
                             status |-> "starting", complete |-> FALSE]
              /\ EnterEnsure(StartupProc)
    /\ UNCHANGED <<is_initializing, temp_files, cards_index,
                   now, cards, redis, redis_up, proc, fresh_until, ratevars>>

\* _initialize_card_index lines 259-292 and steps 3 to 5: the result of
\* ensure_initialized, or its exception, becomes index_init['success'];
\* a failure is appended to startup_errors and the sequence goes on.
\* _preload_common_cards and _final_health_check catch what they raise and
\* do not touch startup_errors; none of the dump's cards carries one of the
\* preloaded names.
StartupContinue ==
    LET r == boot[StartupProc]
        success == r.raised = "none" /\ r.status \in {"success", "already_initialized"}
        errors  == IF success THEN startup.errors ELSE startup.errors \cup {"card_index"} IN
    /\ startup.pc = "index_init"
    /\ r.pc = "done"
    /\ startup' = [pc |-> "done", errors |-> errors,
                   status |-> FinalStatus(errors), complete |-> TRUE]
    /\ UNCHANGED <<lock, is_initializing, boot, temp_files, cards_index,
                   now, cards, redis, redis_up, proc, fresh_until, ratevars>>

\* ------------------------------------------------------- specifications
Step(p) ==
    \/ GetHot(p)
    \/ GetWarm(p)
    \/ GetTouch(p)
    \/ GetCacheWarm(p)
    \/ GetIndex(p)
    \/ GetWait(p)
    \/ GetStore(p)
    \/ GetCache(p)
    \/ PromoteLookup(p)
    \/ PromoteMark(p)
    \/ SweepSelect(p)
    \/ SweepDelete(p)
    \/ Return(p)

\* one call at a time: a call is made, the clock moves and the index is
\* rebuilt only while no call is in flight
CallGet     == AllIdle /\ \E p \in SeqProcs, i \in Ids, force \in BOOLEAN : StartGet(p, i, force)
CallPromote == AllIdle /\ \E p \in SeqProcs, i \in Ids, reason \in CardStorageReason : StartPromote(p, i, reason)
CallSweep   == AllIdle /\ \E p \in SeqProcs, days \in 0..MaxDays : StartSweep(p, days)
Answer      == \E p \in Procs, outcome \in Outcomes : GetFetch(p, outcome)
Run         == \E p \in Procs : Step(p)
DayPasses   == AllIdle /\ Tick
Truncate    == AllIdle /\ ClearIndex
Load        == AllIdle /\ \E batch \in SUBSET Ids : InsertBatch(batch)

Next ==
    \/ CallGet
    \/ CallPromote
    \/ CallSweep
    \/ Answer
    \/ Run
    \/ DayPasses
    \/ Truncate
    \/ Load

Spec == Init /\ [][Next]_vars

\* two callers, interleaved at every await
ConcGet     == \E p \in Procs, i \in ConcIds, force \in BOOLEAN : StartGet(p, i, force)
ConcPromote == \E p \in Procs, i \in ConcIds, reason \in ConcReasons : StartPromote(p, i, reason)
ConcSweep   == \E p \in Procs, days \in 0..MaxDays : StartSweep(p, days)
ConcAnswer  == \E p \in Procs, outcome \in ConcOutcomes : GetFetch(p, outcome)
ConcLoad    == \E batch \in SUBSET ConcIds : InsertBatch(batch)

ConcNext ==
    \/ ConcGet
    \/ ConcPromote
    \/ ConcSweep
    \/ ConcAnswer
    \/ Run
    \/ Tick
    \/ ClearIndex
    \/ ConcLoad

ConcSpec == Init /\ [][ConcNext]_vars

\* the limiter alone, its callers one after the other
RateCall == (\A q \in Procs : waiter[q].pc = "out") /\ \E p \in SeqProcs : wait_if_needed(p)
RateWake == \E p \in Procs : WakeUp(p)

RateNext ==
    \/ RateCall
    \/ RateWake
    \/ ClockTick

RateSpec == Init /\ [][RateNext]_vars

\* callers of the shared limiter, interleaved at the sleep
RateConcCall == \E p \in Procs : wait_if_needed(p)

RateConcNext ==
    \/ RateConcCall
    \/ RateWake
    \/ ClockTick

RateConcSpec == Init /\ [][RateConcNext]_vars

\* the startup sequence and a second caller of ensure_initialized,
\* interleaved at every await
BootStartup  == \E storage_ok, db_ok, tables_ok, auto_init \in BOOLEAN :
                    run_startup_sequence(storage_ok, db_ok, tables_ok, auto_init)
BootCall     == \E p \in Procs : ensure_initialized(p)
BootAcquire  == \E p \in Procs : AcquireLock(p)
BootCount    == \E p \in Procs, db_ok \in BOOLEAN : CheckCount(p, db_ok)
BootManifest == \E p \in Procs, m \in Manifests : GetBulkDataInfo(p, m)
BootDownload == \E p \in Procs, d \in Downloads : DownloadBulkFile(p, d)
BootClear    == \E p \in Procs, db_ok \in BOOLEAN : PipelineClear(p, db_ok)
BootParse    == \E p \in Procs : ProcessBulkFile(p)
BootInsert   == \E p \in Procs, db_ok \in BOOLEAN : InsertBatchStep(p, db_ok)

BootNext ==
    \/ BootStartup
    \/ BootCall
    \/ BootAcquire
    \/ BootCount
    \/ BootManifest
    \/ BootDownload
    \/ BootClear
    \/ BootParse
    \/ BootInsert
    \/ StartupContinue

BootSpec == Init /\ [][BootNext]_vars

\* one call of ensure_initialized on an empty index, over the dumps of
\* LoaderRecords
LoaderDownload == \E p \in Procs, d \in LoaderDownloads : DownloadBulkFile(p, d)

LoaderNext ==
    \/ BootCall
    \/ BootCount
    \/ BootManifest
    \/ LoaderDownload
    \/ BootClear
    \/ BootParse
    \/ BootInsert

LoaderSpec == Init /\ [][LoaderNext]_vars

\* ------------------------------------------------ the search endpoints
\* the loop of search_cards_with_details, by its outcome: the cards whose
\* get_card_details raised are left out
WithDetails(index_results, failed) ==
    SelectSeq(index_results, LAMBDA i : i \notin failed)

\* GET /cards/search: the count query, then search_cards_with_details, then
\* the response; `failed` are the cards of the page whose get_card_details
\* raises
search_cards(p, request) ==
    LET query_params == request.filters
        pg           == get_pagination_params(request.page, request.per_page)
        total        == get_search_count(cards_index, query_params)
    IN  /\ proc[p].pc = "idle"
        /\ \E index_results \in search_card_index(cards_index, query_params,
                                                  request.per_page, pg.offset) :
            \E failed \in SUBSET Range(index_results) :
                 Put(p, [Idle EXCEPT !.op = "search_cards", !.pc = "done",
                                     !.request = request,
                                     !.total = total,
                                     !.index_results = index_results,
                                     !.detailed_cards = WithDetails(index_results, failed),
                                     !.count = total_pages(total, request.per_page),
                                     !.result = "CardSearchResponse"])
        /\ UNCHANGED <<now, cards_index, cards, redis, redis_up, fresh_until, ratevars, bootvars>>

\* api/v1/cards.py, search_unique_cards: the conditions of the grouped query
search_unique_conditions(row, filters) ==
    /\ row.oracle_id # NoOracle
    /\ filters.q # <<>> =>
           \/ ilike(row.name, Around(filters.q))
           \/ ilike(row.type_line, Around(filters.q))
    /\ filters.colors # <<>> => like(row.colors, Around(filters.colors))
    /\ filters.set_code # <<>> => eq(row.set_code, upper(filters.set_code))
    /\ filters.rarity # <<>> => eq(row.rarity, lower(filters.rarity))
    /\ filters.type_line # <<>> => ilike(row.type_line, Around(filters.type_line))

\* GROUP BY oracle_id with count(scryfall_id) and min(name)
unique_query(index, filters) ==
    LET matching == {r \in Rows(index) : search_unique_conditions(r, filters)}
        of(g)    == {r \in matching : r.oracle_id = g}
    IN  {[oracle_id     |-> g,
          version_count |-> Cardinality(of(g)),
          card_name     |-> (CHOOSE r \in of(g) :
                                 \A x \in of(g) : NameLeq(r.name, x.name)).name] :
            g \in {r.oracle_id : r \in matching}}

\* ORDER BY min(name): groups of the same name come in any order
RECURSIVE OrderByCardName(_)
OrderByCardName(groups) ==
    IF groups = {} THEN {<<>>}
    ELSE UNION {{<<g>> \o rest : rest \in OrderByCardName(groups \ {g})} :
                   g \in {x \in groups : \A y \in groups : NameLeq(x.card_name, y.card_name)}}

\* GET /cards/search-unique: the grouped query is counted and paged, a
\* representative printing is looked up for each group of the page, and
\* then card_service.get_cards_batch is called.  CardDetailsService defines
\* no get_cards_batch: the call raises AttributeError, which the handler's
\* `except Exception` turns into HTTP 500, whatever the page holds.
search_unique_cards(p, request) ==
    LET groups       == unique_query(cards_index, request.filters)
        total_unique == Cardinality(groups)
        offset       == (request.page - 1) * request.per_page
    IN  /\ proc[p].pc = "idle"
        /\ \E ordered \in OrderByCardName(groups) :
              Put(p, [Idle EXCEPT !.op = "search_unique_cards", !.pc = "done",
                                  !.request = request,
                                  !.total = total_unique,
                                  !.index_results = Page(ordered, offset, request.per_page),
                                  !.err = "HTTP_500"])
        /\ UNCHANGED <<now, cards_index, cards, redis, redis_up, fresh_until, ratevars, bootvars>>

\* searches over an index of at most MaxRows rows, one request at a time
QueryLoad    == AllIdle /\ Cardinality(cards_index) < MaxRows
                        /\ \E i \in QueryIds : InsertBatch({i})
QuerySearch  == AllIdle /\ \E p \in SeqProcs, request \in Requests : search_cards(p, request)
QueryUnique  == AllIdle /\ \E p \in SeqProcs, request \in Requests :
                                search_unique_cards(p, request)
QueryReturn  == \E p \in SeqProcs : Return(p)

QueryNext ==
    \/ QueryLoad
    \/ QuerySearch
    \/ QueryUnique
    \/ QueryReturn

QuerySpec == Init /\ [][QueryNext]_vars

\* searches with details, one call at a time, while the index can be
\* truncated under a running search
SearchStep(p) ==
    \/ SearchCardIndex(p)
    \/ GetHot(p)
    \/ GetWarm(p)
    \/ GetTouch(p)
    \/ GetCacheWarm(p)
    \/ GetIndex(p)
    \/ GetWait(p)
    \/ GetStore(p)
    \/ GetCache(p)
    \/ Return(p)

SearchCall     == AllIdle /\ \E p \in SeqProcs, limit \in 1..MaxRows, offset \in 0..1 :
                                StartSearch(p, NoFilters, limit, offset)
SearchRun      == \E p \in Procs : SearchStep(p)
SearchTruncate == ClearIndex

SearchNext ==
    \/ SearchCall
    \/ Answer
    \/ SearchRun
    \/ DayPasses
    \/ SearchTruncate
    \/ Load

SearchSpec == Init /\ [][SearchNext]_vars

\* get_card_details, one call at a time, before and during an outage of
\* Redis.  RedisService.get_client, GET, EXPIRE and SETEX raise from the
\* outage on; each method catches the exception (lines 70-72 and 91-93).
RedisOutage ==
    /\ AllIdle
    /\ redis_up
    /\ redis_up' = FALSE
    /\ UNCHANGED <<now, cards_index, cards, redis, proc, fresh_until, ratevars, bootvars>>

OutageStep(p) ==
    \/ GetHot(p)
    \/ GetWarm(p)
    \/ GetTouch(p)
    \/ GetCacheWarm(p)
    \/ GetIndex(p)
    \/ GetWait(p)
    \/ GetStore(p)
    \/ GetCache(p)
    \/ Return(p)

OutageRun == \E p \in Procs : OutageStep(p)

OutageNext ==
    \/ CallGet
    \/ Answer
    \/ OutageRun
    \/ DayPasses
    \/ Load
    \/ RedisOutage

OutageSpec == Init /\ [][OutageNext]_vars

\* ------------------------------ ScryfallBulkService.process_oracle_cards_file
\* process_card_for_index lines 139-147: None for the skipped layouts and
\* set types and for a record without id or name, else the index entry (its
\* scryfall_id stands for it)
process_card_for_index(card_data) ==
    CASE card_data.layout \in {"token", "emblem", "scheme", "planar"} -> "None"
      [] card_data.set_type \in {"memorabilia", "token", "funny"} -> "None"
      [] card_data.id = "" \/ card_data.name = "" -> "None"
      [] OTHER -> card_data.id

\* the next iteration of `for card_data in cards_data`, or lines 248-249
\* once the data is used up: return processed_count, inserted_count
OracleContinue(f) ==
    IF f.cards_data = <<>>
    THEN [f EXCEPT !.pc = "done", !.status = "returned"]
    ELSE [f EXCEPT !.pc = "oracle_record"]

\* lines 213-221: the counters start at 0, the batch empty; json.load of a
\* file that is not JSON leaves through the outer `except Exception` as
\* ExternalServiceError
process_oracle_cards_file(p, file) ==
    /\ boot[p].pc = "idle"
    /\ IF file.valid
       THEN BPut(p, OracleContinue([BLog(BootIdle, "oracle_load") EXCEPT
                                       !.file = file, !.cards_data = file.cards_data]))
       ELSE BPut(p, [BLog(BootIdle, "oracle_load") EXCEPT
                        !.pc = "done", !.file = file, !.raised = "ExternalServiceError"])
    /\ UNCHANGED <<lock, is_initializing, temp_files, startup, cards_index,
                   now, cards, redis, redis_up, proc, fresh_until, ratevars>>

\* lines 225-234 and 243-244, up to the await of the iteration: the record
\* is counted and its entry appended; a full batch goes to the insert of
\* line 235, any other batch that is not empty to the insert of line 245,
\* which stands inside the loop
OracleRecord(p) ==
    LET f == boot[p]
        index_entry == process_card_for_index(Head(f.cards_data))
        batch == IF index_entry # "None" THEN Append(f.batch, index_entry) ELSE f.batch
        g == [BLog(f, "oracle_record") EXCEPT !.cards_data = Tail(f.cards_data),
                                              !.processed = @ + 1, !.batch = batch]
    IN  /\ f.pc = "oracle_record"
        /\ BPut(p, CASE Len(batch) >= OracleBatchSize -> [g EXCEPT !.pc = "oracle_full"]
                     [] Len(batch) < OracleBatchSize /\ batch # <<>> ->
                            [g EXCEPT !.pc = "oracle_rest"]
                     [] OTHER -> OracleContinue(g))
        /\ UNCHANGED <<lock, is_initializing, temp_files, startup, cards_index,
                       now, cards, redis, redis_up, proc, fresh_until, ratevars>>

\* _insert_card_batch lines 257-305: the number it returns is
\* len(card_data), the size of the batch, when the statement committed, and
\* 0 after a rollback
insert_card_batch(batch, db_ok) == IF db_ok THEN Len(batch) ELSE 0

\* lines 234-237: a full batch is inserted and the batch starts again
\* empty, so `if batch` of line 244 is false in this iteration
OracleInsertFull(p, db_ok) ==
    LET f == BLog(boot[p], "oracle_full") IN
    /\ boot[p].pc = "oracle_full"
    /\ cards_index' = IF db_ok THEN on_conflict_do_nothing(cards_index, f.batch)
                               ELSE cards_index
    /\ BPut(p, OracleContinue([f EXCEPT !.inserted = @ + insert_card_batch(f.batch, db_ok),
                                        !.submitted = @ \o f.batch,
                                        !.batch = <<>>]))
    /\ UNCHANGED <<lock, is_initializing, temp_files, startup,
                   now, cards, redis, redis_up, proc, fresh_until, ratevars>>

\* lines 243-246: "Insert remaining batch" runs in every iteration that
\* leaves the batch partly filled; the batch is inserted and kept
OracleInsertRest(p, db_ok) ==
    LET f == BLog(boot[p], "oracle_rest") IN
    /\ boot[p].pc = "oracle_rest"
    /\ cards_index' = IF db_ok THEN on_conflict_do_nothing(cards_index, f.batch)
                               ELSE cards_index
    /\ BPut(p, OracleContinue([f EXCEPT !.inserted = @ + insert_card_batch(f.batch, db_ok),
                                        !.submitted = @ \o f.batch]))
    /\ UNCHANGED <<lock, is_initializing, temp_files, startup,
                   now, cards, redis, redis_up, proc, fresh_until, ratevars>>

\* the caller has its (processed_count, inserted_count) or its exception
OracleReturn(p) ==
    /\ boot[p].pc = "done"
    /\ BPut(p, BootIdle)
    /\ UNCHANGED <<lock, is_initializing, temp_files, startup, cards_index,
                   now, cards, redis, redis_up, proc, fresh_until, ratevars>>

OracleCall   == \E p \in SeqProcs, file \in Files : process_oracle_cards_file(p, file)
OracleLoop   == \E p \in Procs : OracleRecord(p)
OracleFull   == \E p \in Procs, db_ok \in BOOLEAN : OracleInsertFull(p, db_ok)
OracleRest   == \E p \in Procs, db_ok \in BOOLEAN : OracleInsertRest(p, db_ok)
OracleLeave  == \E p \in Procs : OracleReturn(p)

OracleNext ==
    \/ OracleCall
    \/ OracleLoop
    \/ OracleFull
    \/ OracleRest
    \/ OracleLeave

OracleSpec == Init /\ [][OracleNext]_vars

\* =================================================================== claims
Done(p, op) == proc[p].pc = "done" /\ proc[p].op = op

\* the step in which caller p's sweep flushes its deletes and commits
SweepDeleteStep(p) == proc[p].pc = "sweep_delete" /\ proc'[p].pc = "done"

\* C1: every warm row has permanent = TRUE exactly when its storage_reason
\* is not search_cache, after any sequence of get_card_details,
\* make_card_permanent (any CardStorageReason) and cleanup_expired_cache.
C1_PermanentIffNotSearchCache ==
    \A i \in Ids : cards[i] # NoRow =>
        (cards[i].permanent <=> cards[i].storage_reason # SEARCH_CACHE)

\* C2: whenever make_card_permanent(id, reason) returns True, a warm row
\* for id exists with permanent = TRUE and storage_reason = reason.
C2_PromoteTrueHasPermanentRow ==
    \A p \in Procs : Done(p, "promote") /\ proc[p].result = "True" =>
        /\ cards[proc[p].id] # NoRow
        /\ cards[proc[p].id].permanent
        /\ cards[proc[p].id].storage_reason = proc[p].reason

\* C3: cleanup_expired_cache, called with any days (0 included), leaves
\* every row whose permanent flag is TRUE in place, whatever its cached_at.
C3_SweepKeepsPermanent ==
    [][\A p \in Procs : SweepDeleteStep(p) =>
          \A i \in Ids : cards[i].permanent => cards'[i] = cards[i]]_vars

\* a sweep with days = 0 has returned after deleting a row, and a row that
\* was promoted on an earlier day is still there
C3_Witness ==
    \E p \in Procs :
        /\ Done(p, "sweep") /\ proc[p].days = 0 /\ proc[p].count >= 1
        /\ \E i \in Ids : cards[i].permanent /\ cards[i].cached_at < now

\* C4: a sweep with days deletes exactly the rows with permanent = FALSE,
\* storage_reason = search_cache and cached_at < now - days, and returns
\* their number; a row one day past the cutoff goes, a row one day short of
\* it stays; the hot tier and the index are not touched.
C4_SweepDeletesExactlyTheStale ==
    [][\A p \in Procs : SweepDeleteStep(p) =>
          LET cutoff == now - proc[p].days
              stale(i) == /\ cards[i] # NoRow
                          /\ cards[i].permanent = FALSE
                          /\ cards[i].storage_reason = SEARCH_CACHE
                          /\ cards[i].cached_at < cutoff
              plain(i) == /\ cards[i] # NoRow
                          /\ cards[i].permanent = FALSE
                          /\ cards[i].storage_reason = SEARCH_CACHE
          IN  /\ \A i \in Ids : cards'[i] = IF stale(i) THEN NoRow ELSE cards[i]
              /\ \A i \in Ids : plain(i) /\ cards[i].cached_at = cutoff - 1 => cards'[i] = NoRow
              /\ \A i \in Ids : plain(i) /\ cards[i].cached_at = cutoff + 1 => cards'[i] = cards[i]
              /\ proc'[p].count = Cardinality({i \in Ids : stale(i)})
              /\ redis' = redis
              /\ cards_index' = cards_index]_vars

\* a sweep with days = 1 has returned 1: the row it deleted was cached one
\* day before the cutoff, and a search_cache row cached one day after the
\* cutoff is still there
C4_Witness ==
    \E p \in Procs :
        /\ Done(p, "sweep") /\ proc[p].days = 1 /\ proc[p].count = 1
        /\ \E c \in proc[p].expired_cards :
              /\ c.cached_at = now - proc[p].days - 1
              /\ cards[c.scryfall_id] = NoRow
        /\ \E i \in Ids :
              /\ cards[i] # NoRow /\ ~cards[i].permanent
              /\ cards[i].storage_reason = SEARCH_CACHE
              /\ cards[i].cached_at = now - proc[p].days + 1

\* C5: with the sweep's SELECT and its deletes separated by another call's
\* commit, every row the sweep deletes is, when it is deleted, not
\* permanent and older than the cutoff.
C5_SweepDeletesOnlyNonPermanentStale ==
    [][\A p \in Procs : SweepDeleteStep(p) =>
          \A i \in Ids : cards[i] # NoRow /\ cards'[i] = NoRow =>
              /\ ~cards[i].permanent
              /\ cards[i].cached_at < now - proc[p].days]_vars

Has(trace, ev) == \E k \in 1..Len(trace) : trace[k] = ev

Before(trace, a, b) ==
    \E k \in 1..Len(trace), l \in 1..Len(trace) : trace[k] = a /\ trace[l] = b /\ k < l

\* C6 as stated: get_card_details for an id that is not in the index fails
\* with ResourceNotFoundError, without a rate-limiter wait and without a
\* call to the source, in every reachable state.
C6_UnindexedFailsNotFound ==
    \A p \in Procs : Done(p, "get") /\ proc[p].id \notin cards_index =>
        /\ proc[p].err = NotFound
        /\ ~Has(proc[p].trace, "wait")
        /\ ~Has(proc[p].trace, "fetch")

\* C6 amended: get_card_details for an id that is not in the index makes no
\* rate-limiter wait and no call to the source; it fails with
\* ResourceNotFoundError when the call is forced or the id has neither a
\* live hot entry nor a warm row, and otherwise returns the cached card.
C6_UnindexedNeverFetched ==
    \A p \in Procs : Done(p, "get") /\ proc[p].id \notin cards_index =>
        LET f == proc[p]
            cached == f.pre.redis[f.id] > now \/ f.pre.cards[f.id] # NoRow
        IN  /\ ~Has(f.trace, "wait")
            /\ ~Has(f.trace, "fetch")
            /\ f.err \in {"none", NotFound}
            /\ (f.force_refresh \/ ~cached) => f.err = NotFound
            /\ (~f.force_refresh /\ cached) => f.result = "card"

\* the index was cleared while another id still has its warm row, and a
\* get for an uncached id has failed at the index check
C6_Witness ==
    \E p \in Procs :
        /\ Done(p, "get") /\ proc[p].id \notin cards_index
        /\ proc[p].err = NotFound
        /\ proc[p].trace = <<"hot_miss", "warm_miss", "index_missing">>
        /\ \E j \in Ids : cards[j] # NoRow /\ j \notin cards_index

\* C7: a get that misses both tiers for an indexed id and is answered 404
\* by the source fails with ResourceNotFoundError.
C7_Http404IsNotFound ==
    \A p \in Procs : Done(p, "get") /\ proc[p].outcome = "http_404" =>
        proc[p].err = NotFound

\* C8: when the fetch fails for a reason other than 404 (network error,
\* other status, body that is not a card), get_card_details fails with
\* ExternalServiceError and both cache tiers are as they were before the call.
C8_FetchFailureLeavesCaches ==
    \A p \in Procs :
        Done(p, "get") /\ proc[p].outcome \in {"http_error", "request_error",
                                                "bad_json", "missing_field"} =>
            /\ proc[p].err = External
            /\ cards = proc[p].pre.cards
            /\ redis = proc[p].pre.redis

\* a get whose payload lacked a field has failed; the id has no row and no key
C8_Witness ==
    \E p \in Procs :
        /\ Done(p, "get") /\ proc[p].outcome = "missing_field"
        /\ proc[p].err = External
        /\ cards[proc[p].id] = NoRow /\ redis[proc[p].id] = 0

\* C9: after a get_card_details(id) that returned a card, a non-forced
\* get_card_details(id) started before the hot-tier TTL of that call has
\* run out makes no call to the source.
C9_SecondGetWithinTTLNoFetch ==
    \A p \in Procs :
        (/\ Done(p, "get") /\ ~proc[p].force_refresh
         /\ proc[p].pre.fresh_until[proc[p].id] > now)
        => ~Has(proc[p].trace, "fetch")

\* the second get was answered although a sweep had removed the warm row
\* since the first
C9_Witness ==
    \E p \in Procs :
        /\ Done(p, "get") /\ ~proc[p].force_refresh
        /\ proc[p].pre.fresh_until[proc[p].id] > now
        /\ proc[p].result = "card"
        /\ proc[p].pre.cards[proc[p].id] = NoRow

\* C10: when a get misses both tiers for an indexed id and the fetch
\* succeeds, the call returns the card, and on return the warm row exists
\* with storage_reason = search_cache, permanent = FALSE, cached_at = now
\* and the hot key exists; the row is committed before the hot tier is
\* written and before the caller has the card.
C10_ColdFetchIsReadThrough ==
    \A p \in Procs :
        LET f == proc[p]
            stored == /\ cards[f.id] # NoRow
                      /\ cards[f.id].storage_reason = SEARCH_CACHE
                      /\ cards[f.id].permanent = FALSE
                      /\ cards[f.id].cached_at = now
        IN  f.op = "get" /\ ~f.nested /\ f.outcome = "ok" =>
              /\ f.pc = "store" => redis = f.pre.redis
              /\ f.pc = "cache" => stored /\ redis = f.pre.redis
              /\ (f.pc = "done" /\ ~f.force_refresh) => f.result = "card"
              /\ (f.pc = "done" /\ f.result = "card") =>
                    /\ stored
                    /\ HotLive(f.id)
                    /\ Before(f.trace, "warm_persist", "hot_populate")

\* a get has come back from the source through all seven stages
C10_Witness ==
    \E p \in Procs :
        /\ Done(p, "get") /\ proc[p].result = "card"
        /\ proc[p].trace = <<"hot_miss", "warm_miss", "index_ok", "wait", "fetch",
                             "warm_persist", "hot_populate">>

\* C11: a non-forced get_card_details that finds a hot entry returns it and
\* sets the entry's TTL back to the full default; the warm tier is neither
\* read nor written (last_accessed stays), the index is not consulted, and
\* neither the rate limiter nor the source is called.
C11_HotHitRefreshesTTLOnly ==
    \A p \in Procs :
        LET f == proc[p] IN
        Done(p, "get") /\ ~f.force_refresh /\ Has(f.trace, "hot_hit") =>
            /\ f.trace = <<"hot_hit">>
            /\ f.result = "card" /\ f.err = "none"
            /\ f.card_kind = "transient"
            /\ redis = [f.pre.redis EXCEPT ![f.id] = now + HotTTL]
            /\ cards = f.pre.cards

\* a hot hit on a key that had one day left, for an id whose warm row was
\* last read on an earlier day
C11_Witness ==
    \E p \in Procs :
        /\ Done(p, "get") /\ proc[p].trace = <<"hot_hit">>
        /\ proc[p].pre.redis[proc[p].id] = now + 1
        /\ redis[proc[p].id] = now + HotTTL
        /\ cards[proc[p].id] # NoRow /\ cards[proc[p].id].last_accessed < now

\* C12: a non-forced get_card_details that misses the hot tier and finds a
\* warm row sets the row's last_accessed to now and changes nothing else of
\* it, writes a hot key for the id, returns that row, and makes no call to
\* the rate limiter or the source.
C12_WarmHitTouchesAndPopulates ==
    \A p \in Procs :
        LET f == proc[p] IN
        Done(p, "get") /\ ~f.force_refresh /\ Has(f.trace, "warm_hit") /\ f.err = "none" =>
            /\ f.trace = <<"hot_miss", "warm_hit", "warm_touch", "hot_populate">>
            /\ f.result = "card"
            /\ f.card_kind = "persistent" /\ f.card_pk = f.pre.cards[f.id].pk
            /\ cards = [f.pre.cards EXCEPT ![f.id].last_accessed = now]
            /\ redis = [f.pre.redis EXCEPT ![f.id] = now + HotTTL]

\* a warm hit on a row last read on an earlier day, whose hot key had run out
C12_Witness ==
    \E p \in Procs :
        /\ Done(p, "get") /\ Has(proc[p].trace, "warm_hit") /\ proc[p].result = "card"
        /\ proc[p].pre.cards[proc[p].id].last_accessed < now
        /\ cards[proc[p].id].last_accessed = now
        /\ proc[p].pre.redis[proc[p].id] = 0
        /\ HotLive(proc[p].id)

\* C13: in every reachable state, an id with a live hot key has a warm row.
C13_HotImpliesWarm ==
    \A i \in Ids : HotLive(i) => cards[i] # NoRow

\* the stages of get_card_details in the order of its text
Rank(ev) ==
    CASE ev \in {"hot_hit", "hot_miss"}         -> 1
      [] ev \in {"warm_hit", "warm_miss"}       -> 2
      [] ev = "warm_touch"                      -> 3
      [] ev \in {"index_ok", "index_missing"}   -> 4
      [] ev = "wait"                            -> 5
      [] ev = "fetch"                           -> 6
      [] ev = "warm_persist"                    -> 7
      [] ev = "hot_populate"                    -> 8
      [] OTHER                                  -> 9

\* C14: within one get_card_details call the stages run in the order hot
\* lookup, warm lookup, index check, rate-limiter wait, fetch, warm persist,
\* hot populate, none twice; a non-forced call reaches the index check only
\* through both lookups; a fetch comes only after a successful index check
\* and directly after the wait of the same call; the row is persisted
\* directly after the fetch and the hot tier written directly after that.
C14_StagesInOrder ==
    \A p \in Procs :
        LET f == proc[p]
            t == f.trace
            n == Len(t) IN
        f.op = "get" =>
            /\ \A k \in 1..n, l \in 1..n : k < l => Rank(t[k]) < Rank(t[l])
            /\ \A k \in 1..n :
                  /\ t[k] = "fetch" =>
                        /\ k > 1 /\ t[k-1] = "wait"
                        /\ \E j \in 1..(k-1) : t[j] = "index_ok"
                  /\ t[k] = "wait" => k > 1 /\ t[k-1] = "index_ok"
                  /\ t[k] = "warm_persist" => k > 1 /\ t[k-1] = "fetch"
                  /\ t[k] = "hot_populate" => k > 1 /\ t[k-1] \in {"warm_persist", "warm_touch"}
                  /\ (t[k] \in {"index_ok", "index_missing"} /\ ~f.force_refresh) =>
                        k = 3 /\ t[1] = "hot_miss" /\ t[2] = "warm_miss"
            /\ (n > 0 /\ ~f.force_refresh) => Rank(t[1]) = 1

\* a non-forced call is between its answer from the source and the insert
\* of the row: lookups, index check and wait lie behind it in that order
C14_Witness ==
    \E p \in Procs :
        /\ proc[p].op = "get" /\ proc[p].pc = "store" /\ ~proc[p].force_refresh
        /\ Len(proc[p].trace) = 5
        /\ proc[p].trace[4] = "wait" /\ proc[p].trace[5] = "fetch"

\* C15: with the callers of the limiter coming one after the other,
\* wait_if_needed returns at least min_interval after its previous return,
\* also when the previous return lies far back (no allowance is saved up),
\* so the first and the last of N returns are at least (N-1) * min_interval
\* apart.
C15_SequentialSpacing ==
    LET n == Len(releases) IN
    /\ \A k \in 2..n : releases[k] - releases[k-1] >= MinInterval
    /\ n >= 1 => releases[n] - releases[1] >= (n - 1) * MinInterval

\* the second call came after an idle stretch, and the third, made right
\* after it, was still held back for the full interval
C15_Witness ==
    /\ Len(releases) = 3
    /\ releases[2] - releases[1] > MinInterval
    /\ releases[3] - releases[2] = MinInterval

\* C16: with callers of the shared limiter interleaved at the sleep, no two
\* returns of wait_if_needed are less than min_interval apart.
C16_ConcurrentSpacing ==
    \A k \in 1..Len(releases), l \in 1..Len(releases) :
        k < l => releases[l] - releases[k] >= MinInterval

\* the stages of _download_and_populate
PipelineStages == {"manifest", "download", "clear", "parse", "insert"}

InPipeline(p) == boot[p].pc \in PipelineStages

\* C17: at most one caller of ensure_initialized is inside the bootstrap
\* pipeline (manifest fetch, download, index clear, parse, batch insert) at
\* any time, and that caller holds the lock.
C17_OnePipelineAtATime ==
    /\ Cardinality({p \in Procs : InPipeline(p)}) <= 1
    /\ \A p \in Procs : InPipeline(p) \/ boot[p].pc = "count" => lock = p

\* one caller is inserting batches while the other waits for the lock
C17_Witness ==
    \E p \in Procs, q \in Procs :
        /\ boot[p].pc = "insert" /\ lock = p
        /\ boot[q].pc = "acquire"

\* C18: the row count is checked under the lock: the pipeline is entered,
\* and the index cleared, only while the index is below the minimum; a
\* caller that waited for a bootstrap which brought the index to the
\* minimum returns already_initialized and clears nothing.
C18_WaitersSeeValidIndex ==
    /\ \A p \in Procs :
          boot[p].pc \in {"manifest", "download", "clear"} =>
              Cardinality(cards_index) < MinCards
    /\ \A p \in Procs, q \in Procs :
          (/\ p # q
           /\ boot[p].pc = "done" /\ boot[p].status = "success"
           /\ boot[p].card_count_end >= MinCards
           /\ boot[q].waited /\ boot[q].pc \notin {"acquire", "count"}
           /\ boot[q].raised = "none")
          => /\ boot[q].pc = "done"
             /\ boot[q].status = "already_initialized"
             /\ boot[q].trace = <<"count">>
             /\ Cardinality(cards_index) >= MinCards

\* a caller came while the index was empty and the other was in the
\* pipeline, waited, and returned already_initialized
C18_Witness ==
    \E p \in Procs, q \in Procs :
        /\ boot[p].pc = "done" /\ boot[p].status = "success"
        /\ Has(boot[p].trace, "clear")
        /\ boot[q].pc = "done" /\ boot[q].waited
        /\ boot[q].index_at_call = {}
        /\ boot[q].status = "already_initialized"

\* C19: a caller whose count under the lock is at or above the minimum
\* returns already_initialized after the count alone: no manifest fetch, no
\* download, no clear, no insert, and the step leaves the index as it is.
C19_ValidIndexIsNoop ==
    [][\A p \in Procs :
          (boot[p].pc = "count" /\ boot'[p].pc # "count"
           /\ boot'[p].raised = "none" /\ Cardinality(cards_index) >= MinCards)
          => /\ boot'[p].pc = "done"
             /\ boot'[p].status = "already_initialized"
             /\ boot'[p].card_count = Cardinality(cards_index)
             /\ boot'[p].trace = <<"count">>
             /\ cards_index' = cards_index
             /\ temp_files' = temp_files
             /\ is_initializing' = is_initializing]_vars

\* a caller that did not have to wait found exactly the minimum and
\* returned already_initialized
C19_Witness ==
    \E p \in Procs :
        /\ boot[p].pc = "done" /\ ~boot[p].waited
        /\ boot[p].status = "already_initialized"
        /\ boot[p].card_count = MinCards
        /\ Cardinality(cards_index) = MinCards

\* C20: when the manifest fetch, the download or the parse raises,
\* ensure_initialized raises nothing and returns status = error with an
\* error message and a duration; the startup sequence that made the call
\* runs to its end and reports completed_with_warnings.
C20_BootstrapFailureIsAResult ==
    /\ \A p \in Procs :
          boot[p].failed_at \in {"manifest", "download", "parse"} =>
              /\ boot[p].pc = "done"
              /\ boot[p].raised = "none"
              /\ boot[p].status = "error"
              /\ boot[p].error # "none"
              /\ boot[p].has_duration
    /\ (startup.pc = "done" /\ boot[StartupProc].failed_at \in {"manifest", "download", "parse"})
          => /\ startup.status = "completed_with_warnings"
             /\ startup.complete
             /\ "card_index" \in startup.errors
    /\ startup.pc = "index_init" => startup.status # "failed"

\* the startup sequence has finished although the dump it downloaded could
\* not be parsed; the index failure is its only warning
C20_Witness ==
    /\ startup.pc = "done" /\ startup.complete
    /\ startup.status = "completed_with_warnings"
    /\ startup.errors = {"card_index"}
    /\ boot[StartupProc].failed_at = "parse"
    /\ boot[StartupProc].status = "error"

\* C21: once ensure_initialized has returned, with success or with error,
\* the temp file that its download created is gone.
C21_NoTempFileAfterReturn ==
    \A p \in Procs : boot[p].pc = "done" => p \notin temp_files

\* the step with which caller p's _process_bulk_file returns
LoadReturns(p) == boot[p].pc \in {"parse", "insert"} /\ boot'[p].pc = "done"

\* the records of a dump
RecordsOf(cards_data) == {cards_data[k] : k \in 1..Len(cards_data)}

\* C22: a load whose inserts all succeed leaves in the index exactly the ids
\* of the dump's accepted records, one row each, whatever the index held
\* before and however often the dump repeats an id; so loading the same
\* dump a second time gives the same ids and the same row count as loading
\* it once.
C22_LoadIsIdempotent ==
    [][\A p \in Procs :
          (LoadReturns(p) /\ boot'[p].status = "success" /\ ~boot'[p].insert_failed) =>
              LET ids == {process_card(r) : r \in RecordsOf(boot[p].file.cards_data)}
                             \ {"None"}
              IN  /\ cards_index' = ids
                  /\ boot'[p].card_count_end = Cardinality(ids)]_vars

\* a second load has cleared the index and left it as it found it: one row,
\* from a dump that names the id three times
C22_Witness ==
    \E p \in Procs, q \in Procs :
        /\ p # q
        /\ boot[p].pc = "done" /\ boot[p].status = "success" /\ Has(boot[p].trace, "clear")
        /\ boot[q].pc = "done" /\ boot[q].status = "success" /\ Has(boot[q].trace, "clear")
        /\ ~boot[q].insert_failed
        /\ boot[q].index_at_call = cards_index
        /\ boot[q].inserted = 3
        /\ Cardinality(cards_index) = 1

\* the rule of C23 as stated: a record is skipped for its layout, for its
\* set type, or when it lacks both id and name
SkippedAsStated(r) ==
    \/ r.layout \in {"token", "emblem", "art_series", "double_faced_token"}
    \/ r.set_type \in {"memorabilia", "token", "minigame"}
    \/ (r.id = "" /\ r.name = "")

\* the rule of C23 amended: ... or when it lacks id or name
SkippedIfEitherMissing(r) ==
    \/ r.layout \in {"token", "emblem", "art_series", "double_faced_token"}
    \/ r.set_type \in {"memorabilia", "token", "minigame"}
    \/ r.id = ""
    \/ r.name = ""

MoreToInsert(cards_data) == \E r \in RecordsOf(cards_data) : process_card(r) # "None"

\* C24: when the insert of a batch fails, the index keeps the rows of the
\* batches committed before and gains none of the failed batch; the load
\* does not fail, and goes on to insert the next batch as long as accepted
\* records are left.
C24_BatchesAreIndependent ==
    [][\A p \in Procs :
          (boot[p].pc = "insert" /\ boot'[p] # boot[p]) =>
              /\ boot'[p].inserted = boot[p].inserted => cards_index' = cards_index
              /\ cards_index \subseteq cards_index'
              /\ boot'[p].raised = "none" /\ boot'[p].status # "error"
              /\ IF MoreToInsert(boot[p].cards_data)
                 THEN boot'[p].pc = "insert"
                 ELSE boot'[p].pc = "done" /\ boot'[p].status = "success"]_vars

\* a load has returned success after two batches: the first was committed
\* and its rows are in the index, the second failed
C24_Witness ==
    \E p \in Procs :
        /\ boot[p].pc = "done" /\ boot[p].status = "success"
        /\ boot[p].insert_failed
        /\ Cardinality({k \in 1..Len(boot[p].trace) : boot[p].trace[k] = "insert"}) = 2
        /\ boot[p].inserted = BatchSize
        /\ Cardinality(cards_index) = BatchSize

\* C29: promoting an entry that is already permanent returns True and leaves
\* the same warm row (same primary key, same cached_at) permanent with the
\* latest reason as its storage_reason; with the reason it already had, the
\* row's permanent flag and storage_reason are as one promotion left them;
\* the rows of other cards are untouched.
C29_PromotionIsIdempotent ==
    \A p \in Procs :
        LET f   == proc[p]
            old == f.pre.cards[f.id]
        IN  (Done(p, "promote") /\ old # NoRow /\ old.permanent) =>
                /\ f.result = "True" /\ f.err = "none"
                /\ cards[f.id] = [old EXCEPT !.storage_reason = f.reason,
                                             !.last_accessed = now]
                /\ cards[f.id].permanent
                /\ old.storage_reason = f.reason =>
                       cards[f.id] = [old EXCEPT !.last_accessed = now]
                /\ \A i \in Ids \ {f.id} : cards[i] = f.pre.cards[i]

\* a permanent entry has been promoted again, for another reason
C29_Witness ==
    \E p \in Procs :
        LET f   == proc[p]
            old == f.pre.cards[f.id]
        IN  /\ Done(p, "promote") /\ f.result = "True"
            /\ old # NoRow /\ old.permanent
            /\ old.storage_reason = USER_COLLECTION
            /\ f.reason = DECK_USAGE
            /\ cards[f.id].storage_reason = DECK_USAGE

\* C30: make_card_permanent of an id that is in neither cache tier nor the
\* SearchIndex returns False.
C30_UnresolvableReturnsFalse ==
    \A p \in Procs :
        LET f == proc[p] IN
        (/\ Done(p, "promote")
         /\ f.pre.cards[f.id] = NoRow
         /\ f.pre.redis[f.id] <= now
         /\ f.id \notin cards_index) =>
            f.result = "False" /\ f.err = "none"

\* the rows that the page query of a request returns with unbounded limit and
\* zero offset
Unbounded(index, filters) ==
    search_card_index(index, filters, Cardinality(QueryIds), 0)

\* C25: the total of a search response is the number of rows that the page
\* query returns for the same filters with unbounded limit and zero offset,
\* however many of the page's cards made it into the response.
C25_TotalIsPageQueryCount ==
    \A p \in Procs :
        LET f == proc[p] IN
        Done(p, "search_cards") =>
            /\ f.result = "CardSearchResponse"
            /\ \A results \in Unbounded(cards_index, f.request.filters) :
                   f.total = Len(results)
            /\ f.count = total_pages(f.total, f.request.per_page)

\* a filtered search has counted two of three rows, and a card of its page
\* is missing from the response
C25_Witness ==
    \E p \in Procs :
        LET f == proc[p] IN
        /\ Done(p, "search_cards")
        /\ f.request.filters.rarity # <<>>
        /\ Cardinality(cards_index) = 3
        /\ f.total = 2
        /\ Len(f.detailed_cards) < Len(f.index_results)

\* t occurs in s
IsSubstring(t, s) ==
    \E k \in 0..(Len(s) - Len(t)) : SubSeq(s, k + 1, k + Len(t)) = t

\* the match of C26: every supplied filter holds, by substring and equality
MatchesAsStated(row, filters) ==
    /\ filters.q # <<>> =>
           \/ IsSubstring(lower(filters.q), lower(row.name))
           \/ row.type_line # NULL /\ IsSubstring(lower(filters.q), lower(row.type_line))
    /\ filters.colors # <<>> =>
           row.colors # NULL /\ IsSubstring(filters.colors, row.colors)
    /\ filters.set_code # <<>> => row.set_code = upper(filters.set_code)
    /\ filters.rarity # <<>> => row.rarity = lower(filters.rarity)
    /\ filters.type_line # <<>> =>
           row.type_line # NULL /\ IsSubstring(lower(filters.type_line), lower(row.type_line))

\* C26: a search whose page is large enough for the whole index returns
\* exactly the rows that satisfy every supplied filter: q a case-insensitive
\* substring of name or type_line, colors a substring of colors, set code
\* equal to the upper-cased filter, rarity equal to the lower-cased filter,
\* type a case-insensitive substring of type_line.
C26_MatchIsConjunctionOfFilters ==
    \A p \in Procs :
        LET f == proc[p] IN
        (/\ Done(p, "search_cards")
         /\ f.request.page = 1
         /\ f.request.per_page >= Cardinality(cards_index)) =>
            Range(f.index_results) =
                {i \in cards_index : MatchesAsStated(RowOf(i), f.request.filters)}

\* C27: search_unique answers with each matching oracle group at most once,
\* with version_count the number of matching rows of the group, and with
\* total the number of distinct groups among the matching rows.
C27_UniqueGroupsAreCounted ==
    \A p \in Procs :
        LET f        == proc[p]
            matching == {r \in Rows(cards_index) :
                            /\ r.oracle_id # NoOracle
                            /\ search_card_index_conditions(r, f.request.filters)}
        IN  Done(p, "search_unique_cards") =>
                /\ f.err = "none"
                /\ f.total = Cardinality({r.oracle_id : r \in matching})
                /\ \A j, k \in 1..Len(f.index_results) :
                       f.index_results[j].oracle_id = f.index_results[k].oracle_id => j = k
                /\ \A k \in 1..Len(f.index_results) :
                       f.index_results[k].version_count =
                           Cardinality({r \in matching :
                                           r.oracle_id = f.index_results[k].oracle_id})

\* C28: search_cards_with_details never ends in an exception: it returns
\* the cards of its page whose get_card_details returned, in the order of
\* the index results, and leaves out exactly the cards whose
\* get_card_details raised.
C28_SearchOmitsFailedCards ==
    \A p \in Procs :
        LET f == proc[p] IN
        Done(p, "search") =>
            /\ f.err = "none"
            /\ f.result = "detailed_cards"
            /\ f.todo = <<>>
            /\ f.failed \subseteq Range(f.index_results)
            /\ f.detailed_cards = SelectSeq(f.index_results, LAMBDA i : i \notin f.failed)

\* a search over a page of two cards has returned the second one alone:
\* the fetch of the first one failed
C28_Witness ==
    \E p \in Procs :
        LET f == proc[p] IN
        /\ Done(p, "search")
        /\ Len(f.index_results) = 2
        /\ f.failed = {f.index_results[1]}
        /\ f.detailed_cards = <<f.index_results[2]>>
        /\ Has(f.trace, "fetch")

\* C31: a Card row is inserted for a scryfall id only while the warm tier
\* holds no row for that id, after force-refresh gets and under interleaved
\* misses too; so the warm tier never holds two rows for one id.
C31_OneRowPerScryfallId ==
    [][\A i \in Ids :
          (cards'[i] # NoRow /\ cards'[i].pk # cards[i].pk) => cards[i] = NoRow]_vars

\* two interleaved gets of one id both fetched the card; one inserted the
\* row, the other one's insert was rejected
C31_Witness ==
    \E p \in Procs, q \in Procs :
        /\ p # q
        /\ Done(p, "get") /\ Done(q, "get") /\ proc[p].id = proc[q].id
        /\ proc[p].outcome = "ok" /\ proc[q].outcome = "ok"
        /\ proc[p].result = "card" /\ Has(proc[p].trace, "warm_persist")
        /\ proc[q].err = External
        /\ cards[proc[p].id] # NoRow

\* C32: a force-refresh get of an indexed id that has a warm row, answered
\* successfully by the source, returns the card and raises nothing.
C32_ForceRefreshOfWarmEntryReturns ==
    \A p \in Procs :
        LET f == proc[p] IN
        (/\ Done(p, "get") /\ f.force_refresh
         /\ f.pre.cards[f.id] # NoRow
         /\ Has(f.trace, "index_ok")
         /\ f.outcome = "ok") =>
            f.err = "none" /\ f.result = "card"

\* C33: two gets of one indexed id that both started without a warm row,
\* both missed both tiers and were both answered successfully, both return
\* the card.
C33_InterleavedMissesBothReturn ==
    \A p \in Procs, q \in Procs :
        (/\ p # q
         /\ Done(p, "get") /\ Done(q, "get") /\ proc[p].id = proc[q].id
         /\ \A r \in {p, q} :
               /\ ~proc[r].force_refresh
               /\ proc[r].pre.cards[proc[r].id] = NoRow
               /\ Has(proc[r].trace, "warm_miss")
               /\ proc[r].outcome = "ok") =>
            \A r \in {p, q} : proc[r].err = "none" /\ proc[r].result = "card"

\* C34: for an id whose warm row is permanent, the entry that a successful
\* get returns has the permanent flag and the storage_reason of the warm
\* row, whether the hot or the warm tier served it.
C34_ReturnedEntryCarriesPermanence ==
    \A p \in Procs :
        LET f == proc[p] IN
        (/\ Done(p, "get") /\ f.result = "card"
         /\ cards[f.id] # NoRow /\ cards[f.id].permanent) =>
            /\ ReturnedCard(f).permanent = cards[f.id].permanent
            /\ ReturnedCard(f).storage_reason = cards[f.id].storage_reason

\* C35: a caller's ensure_initialized changes the SearchIndex only after its
\* download has delivered the dump; when the manifest or the download
\* fails, the call has cleared nothing, and the index is what it was when
\* the call was made (for a caller that did not have to wait for another
\* caller's pipeline).
C35_ClearOnlyAfterDownload ==
    [][\A p \in Procs :
          boot'[p] # boot[p] =>
              /\ cards_index' # cards_index =>
                     /\ Has(boot[p].trace, "download")
                     /\ boot[p].temp_file = p
              /\ (boot'[p].pc = "done" /\ boot'[p].failed_at \in {"manifest", "download"}) =>
                     /\ cards_index' = cards_index
                     /\ ~Has(boot'[p].trace, "clear")
                     /\ ~boot'[p].waited => cards_index' = boot'[p].index_at_call]_vars

\* a call on an index that held rows, too few, has failed in its download,
\* and the rows are still there
C35_Witness ==
    \E p \in Procs :
        /\ boot[p].pc = "done" /\ boot[p].status = "error"
        /\ boot[p].failed_at = "download"
        /\ ~boot[p].waited
        /\ boot[p].index_at_call # {}
        /\ cards_index = boot[p].index_at_call

\* C36: no step changes cached_at of a warm row that stays; a get served
\* from the hot or the warm tier and a promotion leave the warm row of the
\* id in place with its cached_at, moving last_accessed at most, so the age
\* that the sweep compares is counted from the fetch that stored the row.
C36_ReadsKeepCachedAt ==
    [][/\ \A i \in Ids :
             (cards[i] # NoRow /\ cards'[i] # NoRow /\ cards'[i].pk = cards[i].pk) =>
                 cards'[i].cached_at = cards[i].cached_at
       /\ \A p \in Procs :
             LET f   == proc'[p]
                 old == f.pre.cards[f.id]
             IN  (/\ proc[p].pc # "done" /\ f.pc = "done" /\ f.err = "none"
                  /\ \/ f.op = "get" /\ (Has(f.trace, "hot_hit") \/ Has(f.trace, "warm_hit"))
                     \/ f.op = "promote"
                  /\ old # NoRow
                  /\ cards[f.id] # NoRow /\ cards[f.id].pk = old.pk) =>
                     /\ cards'[f.id] # NoRow
                     /\ cards'[f.id].pk = old.pk
                     /\ cards'[f.id].cached_at = old.cached_at
                     /\ IsExpired(cards'[f.id], now' + 1) = IsExpired(
                            [old EXCEPT !.permanent = cards'[f.id].permanent,
                                        !.storage_reason = cards'[f.id].storage_reason],
                            now' + 1)]_vars

\* a row stored on an earlier day has been read from the warm tier:
\* last_accessed moved to today, cached_at did not
C36_Witness ==
    \E p \in Procs :
        LET f == proc[p] IN
        /\ Done(p, "get") /\ f.result = "card" /\ Has(f.trace, "warm_hit")
        /\ f.pre.cards[f.id] # NoRow
        /\ f.pre.cards[f.id].cached_at < now
        /\ cards[f.id].cached_at = f.pre.cards[f.id].cached_at
        /\ cards[f.id].last_accessed = now
        /\ f.pre.cards[f.id].last_accessed < now

\* CardDataService.get_status lines 432-444
get_status ==
    [total_cards     |-> Cardinality(cards_index),
     is_initialized  |-> Cardinality(cards_index) >= MinCards,
     is_initializing |-> is_initializing]

\* C37: the is_initializing flag that get_status reports is true only
\* while some caller is inside _download_and_populate; once no pipeline is
\* in progress, after a success or after an error, it reads false.
C37_FlagOnlyWhilePipelineRuns ==
    get_status.is_initializing => \E p \in Procs : InPipeline(p)

\* one pipeline ended in an error and another in a success, none is
\* running, and the status reports no initialization
C37_Witness ==
    /\ \E p \in Procs : boot[p].pc = "done" /\ boot[p].status = "error"
                         /\ boot[p].failed_at \in PipelineStages
    /\ \E q \in Procs : boot[q].pc = "done" /\ boot[q].status = "success"
    /\ \A p \in Procs : ~InPipeline(p)
    /\ ~get_status.is_initializing

\* C38: with every Redis read and write failing, get_card_details answers
\* as it would over an empty hot tier: no hot hit and no change to the
\* keys; a warm row is returned (unless force_refresh skips it); without
\* one the card fetched from the source is stored and returned; the call
\* raises ResourceNotFoundError only for an id outside the index and
\* ExternalServiceError only when the source's answer or the INSERT failed,
\* never because of Redis.
C38_OutageReadsAsEmptyHotTier ==
    [][\A p \in Procs :
          LET f   == proc'[p]
              old == f.pre.cards[f.id]
          IN  (/\ ~redis_up
               /\ proc[p].pc # "done" /\ f.pc = "done" /\ f.op = "get") =>
                  /\ ~Has(f.trace, "hot_hit")
                  /\ redis' = f.pre.redis
                  /\ f.err \in {"none", NotFound, External}
                  /\ (old # NoRow /\ ~f.force_refresh) =>
                        /\ f.err = "none" /\ f.result = "card"
                        /\ f.card_kind = "persistent" /\ f.card_pk = old.pk
                        /\ cards'[f.id] # NoRow /\ cards'[f.id].pk = old.pk
                  /\ (old = NoRow /\ f.id \in cards_index /\ f.outcome = "ok") =>
                        /\ f.err = "none" /\ f.result = "card"
                        /\ f.card_kind = "persistent"
                        /\ cards'[f.id] # NoRow /\ cards'[f.id].pk = f.card_pk
                  /\ f.err = NotFound => f.id \notin cards_index
                  /\ f.err = External =>
                        /\ f.id \in cards_index
                        /\ f.outcome # "ok" \/ (old # NoRow /\ f.force_refresh)]_vars

\* during the outage a call found the key of its id still alive in Redis,
\* could not read it and returned the warm row
C38_Witness ==
    \E p \in Procs : LET f == proc[p] IN
        /\ ~redis_up
        /\ Done(p, "get") /\ f.err = "none" /\ f.result = "card"
        /\ f.pre.redis[f.id] > now
        /\ Has(f.trace, "hot_miss") /\ Has(f.trace, "warm_hit")
        /\ redis = f.pre.redis

\* the number of times id was handed to _insert_card_batch
Submissions(f, id) == Cardinality({k \in 1..Len(f.submitted) : f.submitted[k] = id})

\* the records of the file that process_card_for_index accepts
Accepted(f) ==
    {k \in 1..Len(f.file.cards_data) : process_card_for_index(f.file.cards_data[k]) # "None"}

\* C39: when process_oracle_cards_file returns, every accepted record was
\* submitted for insertion exactly once, and the inserted count is at most
\* the processed count.
C39_EachRecordSubmittedOnce ==
    \A p \in Procs : LET f == boot[p] IN
        (f.pc = "done" /\ f.status = "returned") =>
            /\ Len(f.submitted) = Cardinality(Accepted(f))
            /\ \A k \in Accepted(f) :
                  Submissions(f, f.file.cards_data[k].id) =
                      Cardinality({l \in Accepted(f) :
                                      f.file.cards_data[l].id = f.file.cards_data[k].id})
            /\ f.inserted <= f.processed

====
